---- MODULE Spec2Model ----
(***************************************************************************)
(* Model of the agent orchestration engine of agentic-pilot:               *)
(* GeminiCore (src/agent/gemini.py), the speech synthesiser wrapper        *)
(* (src/speech/tts.py) and the tool executor (src/mcp/tool_execution.py).  *)
(* One coroutine runs the wake callback, the continuous listening loop     *)
(* and _process_interaction; every await point of the code is one step.    *)
(* Spec is the voice session. AutopilotSpec is one run of                  *)
(* execute_autopilot (src/tools/autopilot.py), the perceive-decide-act     *)
(* loop, started with any max_iterations up to MaxApIterations.            *)
(***************************************************************************)
EXTENDS Integers, Sequences, FiniteSets, TLC

\* ------------------------------------------------------------------ bounds
\* number of _process_interaction invocations explored in one run
MaxTurns == 2
\* largest number of function calls the model puts into one response
MaxCalls == 2
\* largest max_iterations an autopilot run is started with
MaxApIterations == 2
\* largest number of steps the model puts into one autopilot response
MaxSteps == 2
\* most blanks a transcript begins with
MaxLead == 1
\* presses of the hotkey in one session
MaxPresses == 1
\* calls of speak in a row
MaxSpeaks == 2
\* messages typed into the chat window
MaxMessages == 3

\* ------------------------------------------------------- program constants
\* gemini.py:212  max_retries = 3
max_retries == 3
\* gemini.py:213  retry_delay = 2 (seconds), also the literal 2 of line 278
retry_delay_base == 2
\* wake_word.py:140  the literal 3 of len(command_text) > 3
CommandLengthFloor == 3
\* gemini.py:514-519  RATE, CHUNK, SILENCE_DURATION = 2.0, MAX_DURATION and
\* MIN_AUDIO_LENGTH = 0.5, the last in tenths of a second
RATE == 16000
SILENCE_THRESHOLD == 300
CHUNK == 1024
SILENCE_DURATION == 2
MAX_DURATION == 10
MIN_AUDIO_LENGTH_TENTHS == 5
\* gemini.py:234  max_iterations = 5
max_iterations == 5
\* gemini.py:299  the literal 20 of the history window
HistoryWindow == 20
\* config.py:30, 33, 34
TOOL_RETRY_ATTEMPTS == 2
MAX_CONVERSATION_TURNS == 20
MAX_TOOL_ITERATIONS == 5

VARIABLES
    pc,                   \* position of the session coroutine
    caller,               \* who awaits _process_interaction: "wake" | "continuous"
    turns,                \* _process_interaction invocations so far (bounded)
    continuous_mode,      \* GeminiCore.continuous_mode
    conversation_history, \* GeminiCore.conversation_history (sequence of turn kinds)
    use_history,          \* parameter of the running _process_interaction
    contents,             \* local message list of the running _process_interaction
    response,             \* last response of the reasoning model
    attempt,              \* loop variable of the API retry loop
    retry_delay,          \* local retry_delay of the initial retry loop
    waits,                \* seconds slept before the retries of the current call
    iter,                 \* completed iterations of the tool loop
    apiErr,               \* kind of the exception being handled: "none" | "transient" | "fatal"
    roundTrips,           \* completed remote reasoning calls for this user message
    toolRounds,           \* _handle_tool_calls executions for this user message
    fcLeft,               \* function calls of the response not yet executed
    function_responses,   \* result kinds collected by _handle_tool_calls
    toolPlan,             \* behaviour of the tool of the last executed function call
    toolInvocations,      \* times execute_tool was invoked for that function call
    toolName,             \* name of the last executed function call
    executed,             \* positions, in the response, of the calls executed so far
    fatalSeen,            \* a non-transient API error happened in this user message
    ttsRet,               \* where tts.speak returns to
    ttsRaised,            \* the synthesis capability raised in the running speak
    speech_successful,    \* local flag of _process_interaction
    recorded,             \* what the recording after a question ended with
    speakEnds,            \* on_speaking_end notifications since the response was obtained
                          \* (or since the session last began to listen for a command)
    note,                 \* last lifecycle notification
    gui,                  \* session state shown by the notifications
    is_running,           \* is_running of GeminiCore and of the wake detector
    ap_pc,                \* position of execute_autopilot ("off": not running)
    ap_max,               \* parameter max_iterations of execute_autopilot
    has_executor,         \* parameter tool_executor is given
    step_num,             \* loop variable of the autopilot loop
    cycles,               \* iterations of the autopilot loop started so far
    captures,             \* screen captures taken by the run
    modelCalls,           \* generate_content calls made by the run
    instructions,         \* response of the model in the current iteration
    stepIdx,              \* position in instructions.steps of the next step
    step_log,             \* what became of the steps of the current iteration
    dispatched,           \* tool names given to tool_executor.execute by the run
    result,               \* return value of execute_autopilot
    det_pc,               \* position of start_detection ("off": not running)
    wake_word,            \* the configured wake word, in lower case
    det_running,          \* is_running of the detector
    det_stream,           \* the input stream the detector holds
    rec_streams,          \* input streams opened to record a command
    det_text,             \* transcript of the window the detector handles
    detected_wake_word,   \* the candidate phrase found in it
    command_text,         \* the command extracted from it
    cb_pc,                \* position of each coroutine running _on_wake_detected
    cb_calls,             \* calls of the callback for the window
    cb_with_command,      \* the callback was called with command_text
    cb_arg,               \* the command_text it was called with
    recordings,           \* command recordings started for the window
    hotkey_presses,       \* presses of the hotkey so far
    hotkey_idle,          \* the session was idle at the last press
    rec_pc,               \* position of _record_and_transcribe_command ("off": not running)
    rec_open,             \* the input stream of the recording is open
    rec_i,                \* loop variable i of the recording
    silent_chunks,        \* consecutive quiet frames counted
    rec_frames,           \* len(frames)
    rec_handed,           \* frames of the file given to the transcriber
    rec_text,             \* return value of the recording
    core_running,         \* is_running of GeminiCore
    rec_energy,           \* energy of the frame read last
    rec_loud,             \* a frame of the recording was louder than the threshold
    sp_pc,                \* position of a call of tts.speak ("off": none)
    sp_text,              \* its argument text
    sp_on_start,          \* its argument on_start
    sp_on_end,            \* its argument on_end
    sp_failed,            \* what raised in the call
    on_start_calls,       \* calls of on_start made by the call
    on_end_calls,         \* calls of on_end made by the call
    sp_calls,             \* calls of speak so far
    cw_pc,                \* position of ChatWorker.run ("off": no chat window)
    cw_running,           \* running of the ChatWorker
    current_message,      \* current_message of the ChatWorker (0: None)
    cw_message,           \* the local message of run (0: unset)
    cw_sent,              \* calls of ChatWorker.send_message so far
    cw_handled            \* calls of _handle_message, per message

coreVars == << pc, caller, turns, continuous_mode, conversation_history, use_history,
           contents, response, attempt, retry_delay, waits, iter, apiErr,
           roundTrips, toolRounds, fcLeft, function_responses, toolPlan,
           toolInvocations, toolName, executed, fatalSeen, ttsRet, ttsRaised,
           speech_successful, recorded, speakEnds, note, gui, is_running >>

apVars == << ap_pc, ap_max, has_executor, step_num, cycles, captures, modelCalls,
             instructions, stepIdx, step_log, dispatched, result >>

detVars == << det_pc, wake_word, det_running, det_stream, rec_streams, det_text,
              detected_wake_word, command_text, cb_pc, cb_calls, cb_with_command,
              cb_arg, recordings, hotkey_presses, hotkey_idle >>

recVars == << rec_pc, rec_open, rec_i, silent_chunks, rec_frames, rec_handed,
              rec_text, core_running, rec_energy, rec_loud >>

spkVars == << sp_pc, sp_text, sp_on_start, sp_on_end, sp_failed, on_start_calls,
              on_end_calls, sp_calls >>

chatVars == << cw_pc, cw_running, current_message, cw_message, cw_sent,
               cw_handled >>

vars == << coreVars, apVars, detVars, recVars, spkVars, chatVars >>

\* what the steps of one component leave alone
nonCoreVars == << apVars, detVars, recVars, spkVars, chatVars >>
nonApVars == << coreVars, detVars, recVars, spkVars, chatVars >>
nonDetVars == << coreVars, apVars, recVars, spkVars, chatVars >>
nonRecVars == << coreVars, apVars, detVars, spkVars, chatVars >>
nonSpkVars == << coreVars, apVars, detVars, recVars, chatVars >>
nonChatVars == << coreVars, apVars, detVars, recVars, spkVars >>

\* ----------------------------------------------------------------- inputs
\* what a recording (or the command captured with the wake word) turns into
TextKinds == {"none", "cmd", "listen", "terminate", "decline"}

\* text of a response after the fenced code blocks are stripped
ResponseTexts == {"empty", "short", "statement", "question"}

NoResponse == [cand |-> FALSE, nfc |-> 0, text |-> "empty"]

\* responses of generate_content: no candidate at all, a candidate with
\* text only, or a candidate with nfc function calls, with or without text
Responses ==
    {NoResponse} \cup
    [cand : {TRUE}, nfc : {0}, text : ResponseTexts] \cup
    [cand : {TRUE}, nfc : 1..MaxCalls, text : {"empty", "statement"}]

\* outcomes of one execution of a tool body
ToolOutcomes == {"success", "status_error", "success_false", "raise"}
FailureKinds == {"status_error", "success_false", "raise"}

\* behaviour of a tool over successive invocations: it fails `fails` times
\* in the manner `kind` and succeeds afterwards (fails > TOOL_RETRY_ATTEMPTS
\* is a tool that fails on every attempt the retry budget allows)
NoPlan == [kind |-> "none", fails |-> 0]
ToolPlans ==
    {[kind |-> "success", fails |-> 0]} \cup
    [kind : FailureKinds, fails : 1..(TOOL_RETRY_ATTEMPTS + 1)]

PlanOutcome(plan, n) ==
    IF plan.kind = "success" \/ n > plan.fails THEN "success" ELSE plan.kind

\* ---------------------------------------------------------- notifications
\* main.py: on_listening/on_thinking/on_speaking_start/on_idle switch the
\* GUI state; on_speaking_end deliberately leaves it alone
GuiAfter(g, n) ==
    CASE n = "listening"      -> "Listening"
      [] n = "thinking"       -> "Thinking"
      [] n = "speaking_start" -> "Speaking"
      [] n = "idle"           -> "Idle"
      [] OTHER                -> g

Notify(n) ==
    /\ note' = n
    /\ gui' = GuiAfter(gui, n)
    /\ speakEnds' = IF n = "speaking_end" THEN speakEnds + 1 ELSE speakEnds

Silent == UNCHANGED << note, gui, speakEnds >>

\* where control goes when _process_interaction returns
ReturnPc(c) == IF c = "continuous" THEN "cont_head" ELSE "wake_wait"

CoreInit ==
    /\ pc = "wake_wait"
    /\ is_running = TRUE
    /\ caller = "wake"
    /\ turns = 0
    /\ continuous_mode = FALSE
    /\ conversation_history = << >>
    /\ use_history = FALSE
    /\ contents = << >>
    /\ response = NoResponse
    /\ attempt = 0
    /\ retry_delay = retry_delay_base
    /\ waits = << >>
    /\ iter = 0
    /\ apiErr = "none"
    /\ roundTrips = 0
    /\ toolRounds = 0
    /\ fcLeft = 0
    /\ function_responses = << >>
    /\ toolPlan = NoPlan
    /\ toolInvocations = 0
    /\ fatalSeen = FALSE
    /\ ttsRet = "none"
    /\ ttsRaised = FALSE
    /\ speech_successful = FALSE
    /\ recorded = "none"
    /\ toolName = "none"
    /\ executed = << >>
    /\ speakEnds = 0
    /\ note = "none"
    /\ gui = "Idle"

\* ------------------------------------------------------- autopilot inputs
\* value of "done" in a response object: null, a value that is not null but
\* false in a condition ("", false, 0), or a completion message
DoneKinds == {"null", "falsy", "message"}

\* one element of "steps": a tool step (the executor returns a result map,
\* or the call raises), a tool step that names execute_autopilot, an
\* automation command (it works, its name is unknown to pyautogui, or the
\* primitive raises), an object with neither 'tool' nor 'function', and an
\* element that is not an object
StepKinds == {"tool_ok", "tool_raises", "autopilot", "fn_ok", "fn_unknown",
              "fn_raises", "invalid", "not_object"}

StepLists == UNION {[1..n -> StepKinds] : n \in 0..MaxSteps}

NoInstructions == [kind |-> "none", done |-> "null", shape |-> "missing",
                   steps |-> << >>]

\* what the text of a model response parses to: no JSON at all, JSON that
\* is not an object ([], null, 42), or an object whose "steps" are missing,
\* a list, or a number
ApResponses ==
    {[kind |-> "not_json", done |-> "null", shape |-> "missing", steps |-> << >>],
     [kind |-> "non_object", done |-> "null", shape |-> "missing", steps |-> << >>]}
    \cup [kind : {"object"}, done : DoneKinds, shape : {"missing", "scalar"},
          steps : {<< >>}]
    \cup [kind : {"object"}, done : DoneKinds, shape : {"list"}, steps : StepLists]

\* no return value yet; steps_taken is 0 in the results that have no such key
NoResult == [status |-> "none", message |-> "none", steps_taken |-> 0,
             cause |-> "none"]

\* execute_autopilot is not running
ApOff ==
    /\ ap_pc = "off"
    /\ ap_max = 0
    /\ has_executor = FALSE
    /\ step_num = 0
    /\ cycles = 0
    /\ captures = 0
    /\ modelCalls = 0
    /\ instructions = NoInstructions
    /\ stepIdx = 0
    /\ step_log = << >>
    /\ dispatched = << >>
    /\ result = NoResult

\* the coroutines that can run _on_wake_detected: the one the detector
\* awaits and the one a hotkey press would schedule
Tasks == {"detector", "hotkey"}

\* start_detection is not running
DetOff ==
    /\ det_pc = "off"
    /\ wake_word = << >>
    /\ det_running = FALSE
    /\ det_stream = "closed"
    /\ rec_streams = 0
    /\ det_text = << >>
    /\ detected_wake_word = << >>
    /\ command_text = << >>
    /\ cb_pc = [t \in Tasks |-> "none"]
    /\ cb_calls = 0
    /\ cb_with_command = FALSE
    /\ cb_arg = << >>
    /\ recordings = 0
    /\ hotkey_presses = 0
    /\ hotkey_idle = FALSE

\* no command is being recorded
RecOff ==
    /\ rec_pc = "off"
    /\ rec_open = FALSE
    /\ rec_i = 0
    /\ silent_chunks = 0
    /\ rec_frames = 0
    /\ rec_handed = 0
    /\ rec_text = "none"
    /\ core_running = FALSE
    /\ rec_energy = 0
    /\ rec_loud = FALSE

\* speak is not being called on its own
SpkOff ==
    /\ sp_pc = "off"
    /\ sp_text = "text"
    /\ sp_on_start = "none"
    /\ sp_on_end = "none"
    /\ sp_failed = "none"
    /\ on_start_calls = 0
    /\ on_end_calls = 0
    /\ sp_calls = 0

\* no chat window is open
ChatOff ==
    /\ cw_pc = "off"
    /\ cw_running = FALSE
    /\ current_message = 0
    /\ cw_message = 0
    /\ cw_sent = 0
    /\ cw_handled = [m \in {} |-> 0]

Init == CoreInit /\ ApOff /\ DetOff /\ RecOff /\ SpkOff /\ ChatOff

\* variables local to one _process_interaction invocation
turnLocals == << contents, response, attempt, retry_delay, waits, iter, apiErr,
                 roundTrips, toolRounds, fcLeft, function_responses, toolPlan,
                 toolInvocations, fatalSeen, speech_successful,
                 recorded, toolName, executed >>
ttsVars == << ttsRet, ttsRaised >>
sessionVars == << continuous_mode, conversation_history >>

\* _process_interaction returns to the loop that awaited it; its locals and
\* its parameter go out of scope
Return ==
    /\ pc' = ReturnPc(caller)
    /\ use_history' = FALSE
    /\ contents' = << >>
    /\ response' = NoResponse
    /\ attempt' = 0
    /\ retry_delay' = retry_delay_base
    /\ waits' = << >>
    /\ iter' = 0
    /\ apiErr' = "none"
    /\ roundTrips' = 0
    /\ toolRounds' = 0
    /\ fcLeft' = 0
    /\ function_responses' = << >>
    /\ toolPlan' = NoPlan
    /\ toolInvocations' = 0
    /\ fatalSeen' = FALSE
    /\ speech_successful' = FALSE
    /\ recorded' = "none"
    /\ toolName' = "none"
    /\ executed' = << >>
    /\ ttsRet' = "none"
    /\ ttsRaised' = FALSE
    /\ UNCHANGED << caller, turns >>

\* ------------------------------------------------------------ tts.speak
\* a speak without the except clause: the error leaves speak after the
\* finally clause has fired the end callback
SpeakRaisesMutant(raised) == raised

\* tts.py:80-83: the except clause of speak swallows every error of the
\* synthesis and of the playback, so speak never raises to its caller
SpeakRaises(raised) == FALSE

\* tts.py:52-60: the start callback
TtsStart ==
    /\ pc = "tts_start"
    /\ Notify("speaking_start")
    /\ ttsRaised' = FALSE
    /\ pc' = "tts_synth"
    /\ UNCHANGED << caller, turns, sessionVars, use_history, turnLocals, ttsRet >>
    /\ UNCHANGED is_running
    /\ UNCHANGED nonCoreVars

\* tts.py:62-83: convert and play, either of which may raise
TtsSynth ==
    /\ pc = "tts_synth"
    /\ \E raised \in BOOLEAN : ttsRaised' = raised
    /\ pc' = "tts_end"
    /\ Silent
    /\ UNCHANGED << caller, turns, sessionVars, use_history, turnLocals, ttsRet >>
    /\ UNCHANGED is_running
    /\ UNCHANGED nonCoreVars

\* tts.py:85-94: the finally clause fires the end callback, then speak
\* returns (or, were the error not swallowed, raises) to its caller
TtsEnd ==
    /\ pc = "tts_end"
    /\ Notify("speaking_end")
    /\ pc' = ttsRet
    /\ UNCHANGED << caller, turns, sessionVars, use_history, turnLocals, ttsVars >>
    /\ UNCHANGED is_running
    /\ UNCHANGED nonCoreVars

\* ------------------------------------------------------ _on_wake_detected
\* gemini.py:438-441
WakeDetected ==
    /\ pc = "wake_wait"
    /\ is_running
    /\ note' = "listening"
    /\ gui' = GuiAfter(gui, "listening")
    /\ speakEnds' = 0
    /\ pc' = "wake_cmd"
    /\ UNCHANGED << caller, turns, sessionVars, use_history, turnLocals, ttsVars >>
    /\ UNCHANGED is_running
    /\ UNCHANGED nonCoreVars

\* gemini.py:451-455: no command was captured or recorded
WakeNoCommand ==
    /\ pc = "wake_cmd"
    /\ Notify("idle")
    /\ pc' = "wake_wait"
    /\ UNCHANGED << caller, turns, sessionVars, use_history, turnLocals, ttsVars >>
    /\ UNCHANGED is_running
    /\ UNCHANGED nonCoreVars

\* gemini.py:461-477: "listen up" switches continuous mode on
WakeListenUp ==
    /\ pc = "wake_cmd"
    /\ continuous_mode' = TRUE
    /\ conversation_history' = << >>
    /\ Notify("speaking_start")
    /\ pc' = "tts_start"
    /\ ttsRet' = "cont_head"
    /\ UNCHANGED << caller, turns, use_history, turnLocals, ttsRaised >>
    /\ UNCHANGED is_running
    /\ UNCHANGED nonCoreVars

\* gemini.py:480-492: "terminate" heard by the wake callback
WakeTerminate ==
    /\ pc = "wake_cmd"
    /\ continuous_mode' = FALSE
    /\ conversation_history' = << >>
    /\ Notify("speaking_start")
    /\ pc' = "tts_start"
    /\ ttsRet' = "wake_term_idle"
    /\ UNCHANGED << caller, turns, use_history, turnLocals, ttsRaised >>
    /\ UNCHANGED is_running
    /\ UNCHANGED nonCoreVars

\* gemini.py:494-496
WakeTerminateIdle ==
    /\ pc = "wake_term_idle"
    /\ Notify("idle")
    /\ pc' = "wake_wait"
    /\ ttsRet' = "none"
    /\ ttsRaised' = FALSE
    /\ UNCHANGED << caller, turns, sessionVars, use_history, turnLocals >>
    /\ UNCHANGED is_running
    /\ UNCHANGED nonCoreVars

\* gemini.py:498-499: any other command is processed without history
WakeProcess ==
    /\ pc = "wake_cmd"
    /\ turns < MaxTurns
    /\ turns' = turns + 1
    /\ caller' = "wake"
    /\ use_history' = FALSE
    /\ pc' = "pi_begin"
    /\ Silent
    /\ UNCHANGED << sessionVars, turnLocals, ttsVars >>
    /\ UNCHANGED is_running
    /\ UNCHANGED nonCoreVars

\* ---------------------------------------------- _continuous_listening_loop
\* a loop that gives up at its head
ContinuousLoopRunsMutant(mode, running) == FALSE
\* gemini.py:110: while self.continuous_mode and self.is_running
ContinuousLoopRuns(mode, running) == mode /\ running

\* gemini.py:110-114: loop test and the listening notification
ContHead ==
    /\ pc = "cont_head"
    /\ IF ContinuousLoopRuns(continuous_mode, is_running)
          THEN /\ note' = "listening"
               /\ gui' = GuiAfter(gui, "listening")
               /\ pc' = "cont_record"
          ELSE /\ UNCHANGED << note, gui >>
               /\ pc' = "wake_wait"
    /\ speakEnds' = 0
    /\ ttsRet' = "none"
    /\ ttsRaised' = FALSE
    /\ UNCHANGED << caller, turns, sessionVars, use_history, turnLocals >>
    /\ UNCHANGED is_running
    /\ UNCHANGED nonCoreVars

\* gemini.py:119-122
ContNoCommand ==
    /\ pc = "cont_record"
    /\ pc' = "cont_head"
    /\ Silent
    /\ UNCHANGED << caller, turns, sessionVars, use_history, turnLocals, ttsVars >>
    /\ UNCHANGED is_running
    /\ UNCHANGED nonCoreVars

\* gemini.py:147-151: an exception in the iteration is logged and the loop
\* goes on after a second
ContRaises ==
    /\ pc = "cont_record"
    /\ pc' = "cont_head"
    /\ Silent
    /\ UNCHANGED << caller, turns, sessionVars, use_history, turnLocals, ttsVars >>
    /\ UNCHANGED is_running
    /\ UNCHANGED nonCoreVars

\* gemini.py:125-135
ContTerminate ==
    /\ pc = "cont_record"
    /\ continuous_mode' = FALSE
    /\ conversation_history' = << >>
    /\ pc' = "tts_start"
    /\ ttsRet' = "cont_term_idle"
    /\ Silent
    /\ UNCHANGED << caller, turns, use_history, turnLocals, ttsRaised >>
    /\ UNCHANGED is_running
    /\ UNCHANGED nonCoreVars

\* gemini.py:137-142
ContTerminateIdle ==
    /\ pc = "cont_term_idle"
    /\ Notify("idle")
    /\ pc' = "wake_wait"
    /\ ttsRet' = "none"
    /\ ttsRaised' = FALSE
    /\ UNCHANGED << caller, turns, sessionVars, use_history, turnLocals >>
    /\ UNCHANGED is_running
    /\ UNCHANGED nonCoreVars

\* gemini.py:144-145
ContProcess ==
    /\ pc = "cont_record"
    /\ turns < MaxTurns
    /\ turns' = turns + 1
    /\ caller' = "continuous"
    /\ use_history' = TRUE
    /\ pc' = "pi_begin"
    /\ Silent
    /\ UNCHANGED << sessionVars, turnLocals, ttsVars >>
    /\ UNCHANGED is_running
    /\ UNCHANGED nonCoreVars

\* ---------------------------------------------------- _process_interaction
\* 2 ** a
RECURSIVE Pow2(_)
Pow2(a) == IF a = 0 THEN 1 ELSE 2 * Pow2(a - 1)

\* a retry loop that does not look at the error message
ShouldRetryMutant(kind, a) == a < max_retries - 1

\* gemini.py:222-232 and 275-286: an error whose message contains "503" or
\* "overloaded" is retried while attempt < max_retries - 1, any other error
\* is re-raised at once
ShouldRetry(kind, a) == kind = "transient" /\ a < max_retries - 1

\* a loop that runs one iteration too many
LoopContinuesMutant(i) == i <= max_iterations

\* gemini.py:235: for _ in range(max_iterations)
LoopContinues(i) == i < max_iterations

\* gemini.py:237-243: the function calls found in the first candidate
FunctionCalls(r) == IF r.cand THEN r.nfc ELSE 0

\* a history update that forgets to cut the list
TruncateMutant(c) == c

\* gemini.py:299-300: keep the last 20 entries
Truncate(c) ==
    IF Len(c) > HistoryWindow
       THEN SubSeq(c, Len(c) - HistoryWindow + 1, Len(c))
       ELSE c

\* the kind of history entry a model response becomes
ModelTurn(r) == IF r.nfc > 0 THEN "model_fc" ELSE "model"

\* a test that lets every non-empty text be spoken
SpeakableMutant(text) == text # "empty"
\* gemini.py:303: response_text and len(response_text) > 5
Speakable(text) == text \in {"statement", "question"}

\* tool_execution.py:92-311: the executor turns an exception of the tool body
\* into a result map with success = False and an error_type
ExecutorResult(outcome) ==
    IF outcome = "raise" THEN "exception_map" ELSE outcome

\* gemini.py:611-619: one function call is executed by a single invocation
\* of execute_tool; whatever comes back is the response for that call
HandleToolCall(plan) ==
    [invocations |-> 1, result |-> ExecutorResult(PlanOutcome(plan, 1))]

\* tool_schemas.py:9-446: the names declared to the model
SchemaNames ==
    {"create_folder", "create_file", "edit_file", "read_file", "list_files",
     "get_current_time", "make_appointment", "play_music", "smart_open",
     "launch", "open_website", "search_google", "execute_autopilot",
     "analyze_screen", "click_on_screen", "type_text", "fill_form_on_screen",
     "move_mouse", "move_text_cursor", "insert_code", "generate_code",
     "get_selected_code", "format_code", "save_file", "comment_code",
     "accessibility_shortcuts.py", "screen_color_filter.py",
     "browser_open_tab", "browser_close_tab", "browser_navigate",
     "browser_google_search", "browser_fill_form", "browser_click_element",
     "browser_get_page_content", "browser_screenshot"}

\* tool_execution.py:96-293: the names ToolExecutor.execute has a branch for
HandlerNames ==
    {"create_folder", "create_file", "edit_file", "read_file", "list_files",
     "get_current_time", "play_music", "smart_open", "launch",
     "open_application", "open_website", "search_google", "take_screenshot",
     "capture_screen_region", "analyze_screen", "solve_problem_on_screen",
     "solve_leetcode", "read_form", "extract_text_from_screen",
     "answer_screen_question", "click_on_screen", "type_text",
     "fill_form_on_screen", "move_mouse", "move_text_cursor", "insert_code",
     "generate_code", "replace_selection", "get_selected_code",
     "format_code", "save_file", "comment_code", "browser_open_tab",
     "browser_close_tab", "browser_navigate", "browser_google_search",
     "browser_fill_form", "browser_click_element",
     "browser_get_page_content", "browser_screenshot"}

\* names a function call of the model can carry: a declared tool with a
\* branch, the autopilot tool, and a name that is not declared
ToolNames == {"create_file", "execute_autopilot", "no_such_tool"}

\* tool_execution.py:96-301: the if/elif chain finds a branch for the name
HasHandler(name) == name \in HandlerNames

\* tool_execution.py:81-311 through execute_tool (335-339): the result of
\* the branch, or the failure map of the else branch
Execute(name, plan) ==
    IF HasHandler(name) THEN HandleToolCall(plan).result ELSE "unknown_tool"

\* what a function response can be: the result map of the tool, the map the
\* executor makes of an exception, the map for a name without a branch
FailureMaps == {"status_error", "success_false", "exception_map", "unknown_tool"}

\* a batch that is given up at the first failure
RemainingCallsMutant(left, res) == IF res \in FailureMaps THEN 0 ELSE left - 1

\* gemini.py:605: for fc in function_calls, whatever the last result was
RemainingCalls(left, res) == left - 1

\* a turn that announces Listening again where it should announce Thinking
TurnAnnouncesMutant == "listening"
\* gemini.py:162-163: the callback a turn begins with
TurnAnnounces == "thinking"

\* gemini.py:161-202: on_thinking, screen capture, message list
PiBegin ==
    /\ pc = "pi_begin"
    /\ Notify(TurnAnnounces)
    /\ contents' = Append(IF use_history /\ conversation_history # << >>
                             THEN conversation_history ELSE << >>, "user")
    /\ response' = NoResponse
    /\ attempt' = 0
    /\ retry_delay' = retry_delay_base
    /\ waits' = << >>
    /\ iter' = 0
    /\ apiErr' = "none"
    /\ roundTrips' = 0
    /\ toolRounds' = 0
    /\ fcLeft' = 0
    /\ function_responses' = << >>
    /\ toolPlan' = NoPlan
    /\ toolInvocations' = 0
    /\ fatalSeen' = FALSE
    /\ speech_successful' = FALSE
    /\ recorded' = "none"
    /\ toolName' = "none"
    /\ executed' = << >>
    /\ pc' = "api_initial"
    /\ UNCHANGED << caller, turns, sessionVars, use_history, ttsVars >>
    /\ UNCHANGED is_running
    /\ UNCHANGED nonCoreVars

\* gemini.py:218-219 and 271-272: generate_content returns a response
ApiSuccess ==
    /\ pc \in {"api_initial", "api_loop"}
    /\ \E r \in Responses : response' = r
    /\ roundTrips' = roundTrips + 1
    /\ iter' = IF pc = "api_loop" THEN iter + 1 ELSE iter
    /\ attempt' = 0
    /\ retry_delay' = retry_delay_base
    /\ waits' = << >>
    /\ pc' = "loop_head"
    /\ Silent
    /\ UNCHANGED << caller, turns, recorded, toolName,
                    executed, sessionVars, use_history, contents,
                    apiErr, toolRounds, fcLeft,
                    function_responses, toolPlan, toolInvocations, fatalSeen,
                    speech_successful, ttsVars >>
    /\ UNCHANGED is_running
    /\ UNCHANGED nonCoreVars

\* gemini.py:220-232 and 273-286: generate_content raises
ApiError ==
    /\ pc \in {"api_initial", "api_loop"}
    /\ \E kind \in {"transient", "fatal"} :
          /\ fatalSeen' = (fatalSeen \/ kind = "fatal")
          /\ IF ShouldRetry(kind, attempt)
                THEN /\ waits' = Append(waits,
                                    IF pc = "api_initial"
                                       THEN retry_delay
                                       ELSE retry_delay_base * Pow2(attempt))
                     /\ retry_delay' = IF pc = "api_initial"
                                          THEN retry_delay * 2 ELSE retry_delay
                     /\ attempt' = attempt + 1
                     /\ UNCHANGED << pc, apiErr >>
                ELSE /\ apiErr' = kind
                     /\ pc' = "pi_except"
                     /\ UNCHANGED << waits, retry_delay, attempt >>
    /\ Silent
    /\ UNCHANGED << caller, turns, recorded, toolName,
                    executed, sessionVars, use_history, contents, response,
                    iter, roundTrips, toolRounds, fcLeft, function_responses,
                    toolPlan, toolInvocations, speech_successful, ttsVars >>
    /\ UNCHANGED is_running
    /\ UNCHANGED nonCoreVars

\* gemini.py:235-251: the response asks for tools and the loop has
\* iterations left
ToolLoopEnter ==
    /\ pc = "loop_head"
    /\ LoopContinues(iter)
    /\ FunctionCalls(response) > 0
    /\ fcLeft' = FunctionCalls(response)
    /\ function_responses' = << >>
    /\ executed' = << >>
    /\ toolRounds' = toolRounds + 1
    /\ pc' = "tools"
    /\ Silent
    /\ UNCHANGED << caller, turns, recorded, toolName, sessionVars, use_history, contents, response,
                    attempt, retry_delay, waits, iter, apiErr, roundTrips,
                    toolPlan, toolInvocations, fatalSeen,
                    speech_successful, ttsVars >>
    /\ UNCHANGED is_running
    /\ UNCHANGED nonCoreVars

\* gemini.py:605-619: one function call of the batch
ExecTool ==
    /\ pc = "tools"
    /\ fcLeft > 0
    /\ \E name \in ToolNames :
       \E plan \in (IF HasHandler(name) THEN ToolPlans ELSE {NoPlan}) :
          /\ toolName' = name
          /\ toolPlan' = plan
          /\ toolInvocations' = HandleToolCall(plan).invocations
          /\ function_responses' =
                Append(function_responses, Execute(name, plan))
          /\ fcLeft' = RemainingCalls(fcLeft, Execute(name, plan))
    /\ executed' = Append(executed, FunctionCalls(response) - fcLeft + 1)
    /\ Silent
    /\ UNCHANGED << pc, caller, turns, recorded, sessionVars, use_history, contents,
                    response, attempt, retry_delay, waits, iter, apiErr,
                    roundTrips, toolRounds, fatalSeen,
                    speech_successful, ttsVars >>
    /\ UNCHANGED is_running
    /\ UNCHANGED nonCoreVars

\* gemini.py:253-269: the model turn and the tool-result turn are appended
\* and the messages are submitted again
ToolsDone ==
    /\ pc = "tools"
    /\ fcLeft = 0
    /\ contents' = contents \o << "model_fc", "tool" >>
    /\ function_responses' = << >>
    /\ toolPlan' = NoPlan
    /\ toolName' = "none"
    /\ executed' = << >>
    /\ toolInvocations' = 0
    /\ attempt' = 0
    /\ waits' = << >>
    /\ pc' = "api_loop"
    /\ Silent
    /\ UNCHANGED << caller, turns, recorded, sessionVars, use_history, response,
                    retry_delay, iter, apiErr, roundTrips,
                    toolRounds, fcLeft, fatalSeen, speech_successful, ttsVars >>
    /\ UNCHANGED is_running
    /\ UNCHANGED nonCoreVars

\* gemini.py:245-246 (break) or the range is used up; then 288-305: the
\* text is taken, the history is updated, and the turn speaks or not
ToolLoopExit ==
    /\ pc = "loop_head"
    /\ ~(LoopContinues(iter) /\ FunctionCalls(response) > 0)
    /\ IF use_history /\ response.cand
          THEN /\ contents' = Truncate(Append(contents, ModelTurn(response)))
               /\ conversation_history' = contents'
          ELSE UNCHANGED << contents, conversation_history >>
    /\ speakEnds' = 0
    /\ IF Speakable(response.text)
          THEN pc' = "tts_start" /\ ttsRet' = "pi_post_speak"
          ELSE pc' = "pi_nospeech_start" /\ UNCHANGED ttsRet
    /\ UNCHANGED << note, gui, caller, turns, recorded, toolName,
                    executed, continuous_mode, use_history,
                    response, attempt, retry_delay, waits, iter, apiErr,
                    roundTrips, toolRounds, fcLeft,
                    function_responses, toolPlan, toolInvocations, fatalSeen,
                    speech_successful, ttsRaised >>
    /\ UNCHANGED is_running
    /\ UNCHANGED nonCoreVars

\* gemini.py:314-324: speak has returned (speech_successful) or raised (the
\* handler fires on_speaking_end); a question continues the conversation
PiAfterSpeak ==
    /\ pc = "pi_post_speak"
    /\ IF SpeakRaises(ttsRaised)
          THEN Notify("speaking_end") /\ speech_successful' = FALSE
          ELSE Silent /\ speech_successful' = TRUE
    /\ pc' = IF speech_successful' /\ response.text = "question"
                THEN "fu_listen" ELSE "pi_idle_check"
    /\ UNCHANGED << caller, turns, recorded, toolName,
                    executed, sessionVars, use_history, contents, response,
                    attempt, retry_delay, waits, iter, apiErr, roundTrips,
                    toolRounds, fcLeft, function_responses,
                    toolPlan, toolInvocations, fatalSeen, ttsVars >>
    /\ UNCHANGED is_running
    /\ UNCHANGED nonCoreVars

\* gemini.py:378-382
PiNoSpeechStart ==
    /\ pc = "pi_nospeech_start"
    /\ Notify("speaking_start")
    /\ pc' = "pi_nospeech_end"
    /\ UNCHANGED << caller, turns, sessionVars, use_history, turnLocals, ttsVars >>
    /\ UNCHANGED is_running
    /\ UNCHANGED nonCoreVars

\* gemini.py:383-384
PiNoSpeechEnd ==
    /\ pc = "pi_nospeech_end"
    /\ Notify("speaking_end")
    /\ pc' = "pi_idle_check"
    /\ UNCHANGED << caller, turns, sessionVars, use_history, turnLocals, ttsVars >>
    /\ UNCHANGED is_running
    /\ UNCHANGED nonCoreVars

\* gemini.py:386-388: go idle only when the turn did not use the history
PiIdle ==
    /\ pc = "pi_idle_check"
    /\ IF ~use_history THEN Notify("idle") ELSE Silent
    /\ Return
    /\ UNCHANGED sessionVars
    /\ UNCHANGED is_running
    /\ UNCHANGED nonCoreVars

\* gemini.py:327-330
FollowUpListen ==
    /\ pc = "fu_listen"
    /\ Notify("listening")
    /\ pc' = "fu_record"
    /\ UNCHANGED << caller, turns, sessionVars, use_history, turnLocals, ttsVars >>
    /\ UNCHANGED is_running
    /\ UNCHANGED nonCoreVars

\* how a recording can end: nothing was transcribed, the transcription is
\* shorter than 3 characters, the recording or the transcription raised, the
\* user declined, the user gave an answer
RecordOutcomes == {"empty", "short", "error", "decline", "answer"}

\* a transcription that is returned whatever its length
RecordAndTranscribeMutant(o) ==
    IF o \in {"empty", "error"} THEN "none"
    ELSE IF o = "short" THEN "answer" ELSE o

\* gemini.py:589-599: _record_and_transcribe_command returns "" for an empty
\* or too short transcription and for every exception
RecordAndTranscribe(o) ==
    IF o \in {"empty", "short", "error"} THEN "none" ELSE o

\* gemini.py:333: the recording of the answer is over
FollowUpRecorded ==
    /\ pc = "fu_record"
    /\ \E o \in RecordOutcomes : recorded' = o
    /\ pc' = "fu_answer"
    /\ Silent
    /\ UNCHANGED << caller, turns, toolName, executed, sessionVars, use_history, contents, response,
                    attempt, retry_delay, waits, iter, apiErr, roundTrips,
                    toolRounds, fcLeft, function_responses, toolPlan,
                    toolInvocations, fatalSeen, speech_successful, ttsVars >>
    /\ UNCHANGED is_running
    /\ UNCHANGED nonCoreVars

\* gemini.py:335 and 362-367, 376: nothing was transcribed
FollowUpNoAnswer ==
    /\ pc = "fu_answer"
    /\ RecordAndTranscribe(recorded) = "none"
    /\ conversation_history' = << >>
    /\ Notify("idle")
    /\ Return
    /\ UNCHANGED continuous_mode
    /\ UNCHANGED is_running
    /\ UNCHANGED nonCoreVars

\* gemini.py:338-349: the answer declines, an acknowledgement is spoken
FollowUpDecline ==
    /\ pc = "fu_answer"
    /\ RecordAndTranscribe(recorded) = "decline"
    /\ pc' = "tts_start"
    /\ ttsRet' = "fu_decline_done"
    /\ Silent
    /\ UNCHANGED << caller, turns, sessionVars, use_history, turnLocals, ttsRaised >>
    /\ UNCHANGED is_running
    /\ UNCHANGED nonCoreVars

\* gemini.py:350-354
FollowUpDeclineDone ==
    /\ pc = "fu_decline_done"
    /\ conversation_history' = << >>
    /\ Notify("idle")
    /\ Return
    /\ UNCHANGED continuous_mode
    /\ UNCHANGED is_running
    /\ UNCHANGED nonCoreVars

\* gemini.py:356-361: the answer is processed as a turn with history
FollowUpAnswer ==
    /\ pc = "fu_answer"
    /\ RecordAndTranscribe(recorded) = "answer"
    /\ turns < MaxTurns
    /\ turns' = turns + 1
    /\ conversation_history' = IF conversation_history = << >>
                                  THEN contents ELSE conversation_history
    /\ use_history' = TRUE
    /\ pc' = "pi_begin"
    /\ Silent
    /\ UNCHANGED << caller, continuous_mode, turnLocals, ttsVars >>
    /\ UNCHANGED is_running
    /\ UNCHANGED nonCoreVars

\* gemini.py:390-400: the handler of every error of the turn
PiExcept ==
    /\ pc = "pi_except"
    /\ Notify("speaking_end")
    /\ pc' = "pi_except_idle"
    /\ UNCHANGED << caller, turns, sessionVars, use_history, turnLocals, ttsVars >>
    /\ UNCHANGED is_running
    /\ UNCHANGED nonCoreVars

\* gemini.py:402-406
PiExceptIdle ==
    /\ pc = "pi_except_idle"
    /\ IF ~use_history THEN Notify("idle") ELSE Silent
    /\ Return
    /\ UNCHANGED sessionVars
    /\ UNCHANGED is_running
    /\ UNCHANGED nonCoreVars

\* gemini.py:623-626: stop clears is_running of the core and of the detector.
\* The flag is read at the heads of the two loops only (gemini.py:110,
\* wake_word.py:73), so a stop at any moment acts as a stop right before
\* the next of these reads, which is where it is taken here
CoreStop ==
    /\ pc \in {"wake_wait", "cont_head"}
    /\ is_running
    /\ is_running' = FALSE
    /\ Silent
    /\ UNCHANGED << pc, caller, turns, sessionVars, use_history, turnLocals,
                    ttsVars >>
    /\ UNCHANGED nonCoreVars

Next ==
    \/ CoreStop
    \/ WakeDetected \/ WakeNoCommand \/ WakeListenUp \/ WakeTerminate
    \/ WakeTerminateIdle \/ WakeProcess
    \/ ContHead \/ ContNoCommand \/ ContRaises \/ ContTerminate \/ ContTerminateIdle
    \/ ContProcess
    \/ PiBegin \/ ApiSuccess \/ ApiError
    \/ ToolLoopEnter \/ ExecTool \/ ToolsDone \/ ToolLoopExit
    \/ TtsStart \/ TtsSynth \/ TtsEnd
    \/ PiAfterSpeak \/ PiNoSpeechStart \/ PiNoSpeechEnd \/ PiIdle
    \/ FollowUpListen \/ FollowUpRecorded \/ FollowUpNoAnswer \/ FollowUpDecline
    \/ FollowUpDeclineDone \/ FollowUpAnswer
    \/ PiExcept \/ PiExceptIdle

Spec == Init /\ [][Next]_vars

TypeOK ==
    /\ is_running \in BOOLEAN
    /\ turns \in 0..MaxTurns
    /\ iter \in 0..max_iterations
    /\ attempt \in 0..(max_retries - 1)
    /\ response \in Responses
    /\ gui \in {"Idle", "Listening", "Thinking", "Speaking"}

\* ===================================================================
\* execute_autopilot (src/tools/autopilot.py): one run of the
\* perceive-decide-act loop, every await of the code is one step
\* ===================================================================
\* the function is called with max_iterations and with or without a
\* tool executor
AutopilotInit ==
    /\ CoreInit /\ DetOff /\ RecOff /\ SpkOff /\ ChatOff
    /\ ap_pc = "loop_head"
    /\ ap_max \in 0..MaxApIterations
    /\ has_executor \in BOOLEAN
    /\ step_num = 0
    /\ cycles = 0
    /\ captures = 0
    /\ modelCalls = 0
    /\ instructions = NoInstructions
    /\ stepIdx = 0
    /\ step_log = << >>
    /\ dispatched = << >>
    /\ result = NoResult

\* the return statements of execute_autopilot
ApReturn(res) ==
    /\ ap_pc' = "returned"
    /\ result' = res

\* a handler that lets the exception go on to the caller
ApExceptMutant(cause) ==
    /\ ap_pc' = "raised"
    /\ UNCHANGED result

\* autopilot.py:341-347: except Exception of the whole function body
ApExcept(cause) ==
    ApReturn([status |-> "error", message |-> "exception",
              steps_taken |-> 0, cause |-> cause])

\* `continue` and the end of the loop body: the next value of the range
ApContinue ==
    /\ ap_pc' = "loop_head"
    /\ step_num' = step_num + 1
    /\ instructions' = NoInstructions
    /\ stepIdx' = 0
    /\ step_log' = << >>
    /\ dispatched' = << >>

\* autopilot.py:198: for step_num in range(max_iterations)
ApLoopHasNext(i, m) == i < m

\* autopilot.py:198-199: the next iteration starts
ApIterate ==
    /\ ap_pc = "loop_head"
    /\ ApLoopHasNext(step_num, ap_max)
    /\ cycles' = cycles + 1
    /\ ap_pc' = "capture"
    /\ UNCHANGED << ap_max, has_executor, step_num, captures, modelCalls,
                    instructions, stepIdx, step_log, dispatched, result >>
    /\ UNCHANGED nonApVars

\* autopilot.py:334-339: the range is used up
ApExhausted ==
    /\ ap_pc = "loop_head"
    /\ ~ApLoopHasNext(step_num, ap_max)
    /\ ApReturn([status |-> "partial", message |-> "max_iterations_reached",
                 steps_taken |-> ap_max, cause |-> "none"])
    /\ UNCHANGED << ap_max, has_executor, step_num, cycles, captures, modelCalls,
                    instructions, stepIdx, step_log, dispatched >>
    /\ UNCHANGED nonApVars

\* autopilot.py:202-209: the screen is captured; no screenshot ends the run
ApCapture ==
    /\ ap_pc = "capture"
    /\ captures' = captures + 1
    /\ \E ok \in BOOLEAN :
          IF ok
             THEN ap_pc' = "call" /\ UNCHANGED result
             ELSE ApReturn([status |-> "error", message |-> "capture_failed",
                            steps_taken |-> 0, cause |-> "capture"])
    /\ UNCHANGED << ap_max, has_executor, step_num, cycles, modelCalls,
                    instructions, stepIdx, step_log, dispatched >>
    /\ UNCHANGED nonApVars

\* autopilot.py:259-270: generate_content returns and the text is parsed
ApModelResponds ==
    /\ ap_pc = "call"
    /\ modelCalls' = modelCalls + 1
    /\ \E r \in ApResponses : instructions' = r
    /\ ap_pc' = "parse"
    /\ UNCHANGED << ap_max, has_executor, step_num, cycles, captures, stepIdx,
                    step_log, dispatched, result >>
    /\ UNCHANGED nonApVars

\* autopilot.py:259 and 341-347: generate_content raises
ApModelRaises ==
    /\ ap_pc = "call"
    /\ modelCalls' = modelCalls + 1
    /\ ApExcept("model_call")
    /\ UNCHANGED << ap_max, has_executor, step_num, cycles, captures,
                    instructions, stepIdx, step_log, dispatched >>
    /\ UNCHANGED nonApVars

\* autopilot.py:271-274: json.loads raises JSONDecodeError
ApMalformedJson ==
    /\ ap_pc = "parse"
    /\ instructions.kind = "not_json"
    /\ ApContinue
    /\ UNCHANGED << ap_max, has_executor, cycles, captures, modelCalls, result >>
    /\ UNCHANGED nonApVars

\* autopilot.py:277 and 341-347: the parsed value has no get method, the
\* AttributeError reaches the handler of the whole function
ApNotAnObject ==
    /\ ap_pc = "parse"
    /\ instructions.kind = "non_object"
    /\ ApExcept("response_shape")
    /\ UNCHANGED << ap_max, has_executor, step_num, cycles, captures, modelCalls,
                    instructions, stepIdx, step_log, dispatched >>
    /\ UNCHANGED nonApVars

\* a loop that never looks at "done"
DoneSetMutant(d) == FALSE

\* autopilot.py:277: if instructions.get('done')
DoneSet(d) == d = "message"

\* autopilot.py:277-283: the task is complete
ApDone ==
    /\ ap_pc = "parse"
    /\ instructions.kind = "object"
    /\ DoneSet(instructions.done)
    /\ ApReturn([status |-> "success", message |-> instructions.done,
                 steps_taken |-> step_num + 1, cause |-> "none"])
    /\ UNCHANGED << ap_max, has_executor, step_num, cycles, captures, modelCalls,
                    instructions, stepIdx, step_log, dispatched >>
    /\ UNCHANGED nonApVars

\* autopilot.py:286-289: no "steps", null or an empty list
ApNoSteps ==
    /\ ap_pc = "parse"
    /\ instructions.kind = "object"
    /\ ~DoneSet(instructions.done)
    /\ \/ instructions.shape = "missing"
       \/ instructions.shape = "list" /\ instructions.steps = << >>
    /\ ApContinue
    /\ UNCHANGED << ap_max, has_executor, cycles, captures, modelCalls, result >>
    /\ UNCHANGED nonApVars

\* autopilot.py:291-294 and 341-347: "steps" is a number, len(steps) or the
\* for statement raises TypeError outside the try of the steps
ApStepsNotIterable ==
    /\ ap_pc = "parse"
    /\ instructions.kind = "object"
    /\ ~DoneSet(instructions.done)
    /\ instructions.shape = "scalar"
    /\ ApExcept("steps_shape")
    /\ UNCHANGED << ap_max, has_executor, step_num, cycles, captures, modelCalls,
                    instructions, stepIdx, step_log, dispatched >>
    /\ UNCHANGED nonApVars

\* autopilot.py:291-294: the steps are executed one after the other
ApBeginSteps ==
    /\ ap_pc = "parse"
    /\ instructions.kind = "object"
    /\ ~DoneSet(instructions.done)
    /\ instructions.shape = "list"
    /\ instructions.steps # << >>
    /\ stepIdx' = 1
    /\ ap_pc' = "steps"
    /\ UNCHANGED << ap_max, has_executor, step_num, cycles, captures, modelCalls,
                    instructions, step_log, dispatched, result >>
    /\ UNCHANGED nonApVars

\* a loop without the guard against calling itself
IsRecursiveCallMutant(kind) == FALSE

\* autopilot.py:302: tool_name == 'execute_autopilot'
IsRecursiveCall(kind) == kind = "autopilot"

\* autopilot.py:299
ToolName(kind) == IF kind = "autopilot" THEN "execute_autopilot" ELSE "other_tool"

\* autopilot.py:295-329 and 27-52: what one step comes to
StepOutcome(kind, executor) ==
    CASE kind = "not_object" -> "step_error"
      [] kind \in {"tool_ok", "tool_raises", "autopilot"} ->
            IF IsRecursiveCall(kind) THEN "skipped_recursive"
            ELSE IF ~executor THEN "skipped_no_executor"
            ELSE IF kind = "tool_raises" THEN "tool_error"
            ELSE "tool_result"
      [] kind = "fn_ok" -> "command_ok"
      [] kind \in {"fn_unknown", "fn_raises"} -> "command_failed"
      [] OTHER -> "invalid_format"

\* a step list that is given up at the first failing step, as
\* AutopilotInterpreter.execute_commands does
StepAbortsMutant(outcome) ==
    outcome \in {"step_error", "tool_error", "command_failed", "invalid_format"}

\* autopilot.py:320-329: a failed command is a warning, an exception of a
\* step is caught inside the for statement
StepAborts(outcome) == FALSE

\* autopilot.py:294-329: one step of the list
ApStep ==
    /\ ap_pc = "steps"
    /\ stepIdx <= Len(instructions.steps)
    /\ LET kind == instructions.steps[stepIdx]
           outcome == StepOutcome(kind, has_executor)
       IN  /\ step_log' = Append(step_log, outcome)
           /\ dispatched' = IF outcome \in {"tool_result", "tool_error"}
                               THEN Append(dispatched, ToolName(kind))
                               ELSE dispatched
           /\ stepIdx' = IF StepAborts(outcome)
                            THEN Len(instructions.steps) + 1
                            ELSE stepIdx + 1
    /\ UNCHANGED << ap_pc, ap_max, has_executor, step_num, cycles, captures,
                    modelCalls, instructions, result >>
    /\ UNCHANGED nonApVars

\* autopilot.py:331-332: the list is through, the loop sleeps
ApStepsDone ==
    /\ ap_pc = "steps"
    /\ stepIdx > Len(instructions.steps)
    /\ ap_pc' = "sleep"
    /\ UNCHANGED << ap_max, has_executor, step_num, cycles, captures, modelCalls,
                    instructions, stepIdx, step_log, dispatched, result >>
    /\ UNCHANGED nonApVars

\* autopilot.py:332 and 198: the sleep is over
ApSleepOver ==
    /\ ap_pc = "sleep"
    /\ ApContinue
    /\ UNCHANGED << ap_max, has_executor, cycles, captures, modelCalls, result >>
    /\ UNCHANGED nonApVars

AutopilotNext ==
    \/ ApIterate \/ ApExhausted \/ ApCapture \/ ApModelResponds \/ ApModelRaises
    \/ ApMalformedJson \/ ApNotAnObject \/ ApDone \/ ApNoSteps
    \/ ApStepsNotIterable \/ ApBeginSteps \/ ApStep \/ ApStepsDone
    \/ ApSleepOver

AutopilotSpec == AutopilotInit /\ [][AutopilotNext]_vars

ApTypeOK ==
    /\ step_num \in 0..ap_max
    /\ cycles \in 0..ap_max
    /\ instructions \in ApResponses \cup {NoInstructions}
    /\ result.status \in {"none", "success", "partial", "error"}

\* ===================================================================
\* WakeWordDetector.start_detection (src/speech/wake_word.py) with the
\* callback it awaits, GeminiCore._on_wake_detected, and the hotkey
\* handler of src/utils/hotkey.py; a transcript is a sequence of characters
\* ===================================================================
W_jarvis == <<"j", "a", "r", "v", "i", "s">>
W_sarah == <<"s", "a", "r", "a", "h">>

\* the assistant names the settings offer
WakeWords == {W_jarvis, W_sarah}

\* str.lower() on the letters the transcripts use
LowerChar(c) ==
    CASE c = "H" -> "h"
      [] c = "J" -> "j"
      [] c = "O" -> "o"
      [] c = "S" -> "s"
      [] c = "W" -> "w"
      [] OTHER -> c

Lower(s) == [i \in 1..Len(s) |-> LowerChar(s[i])]

UpperChar(c) ==
    CASE c = "h" -> "H"
      [] c = "j" -> "J"
      [] c = "o" -> "O"
      [] c = "s" -> "S"
      [] c = "w" -> "W"
      [] OTHER -> c

Capitalize(s) == IF s = << >> THEN s ELSE <<UpperChar(s[1])>> \o Tail(s)

Whitespace == {" "}

\* s[n:]
Drop(s, n) == SubSeq(s, n + 1, Len(s))

RECURSIVE LStripChars(_, _)
LStripChars(s, chars) ==
    IF s # << >> /\ Head(s) \in chars THEN LStripChars(Tail(s), chars) ELSE s

RECURSIVE RStripChars(_, _)
RStripChars(s, chars) ==
    IF s # << >> /\ s[Len(s)] \in chars
    THEN RStripChars(SubSeq(s, 1, Len(s) - 1), chars)
    ELSE s

\* str.strip()
Strip(s) == RStripChars(LStripChars(s, Whitespace), Whitespace)

\* the characters of lstrip('.,!?:; ')
LeadingPunctuationMutant == {".", "!", "?", ":", ";", " "}
LeadingPunctuation == {".", ",", "!", "?", ":", ";", " "}

\* where sub occurs in s
Occurrences(sub, s) ==
    {i \in 1..(Len(s) - Len(sub) + 1) : SubSeq(s, i, i + Len(sub) - 1) = sub}

\* sub in s
Contains(sub, s) == Occurrences(sub, s) # {}

\* the candidate phrases, in the order they are tried
WakePhrases(w) == << w, <<"h", "e", "y", " ">> \o w, <<"o", "k", " ">> \o w >>

\* the first candidate the lower-cased, stripped transcript contains
\* (no candidate: the empty sequence, None in the code)
DetectedWakeWord(w, t) ==
    LET text_lower == Strip(Lower(t))
        hits == {k \in 1..3 : Contains(WakePhrases(w)[k], text_lower)}
    IN  IF hits = {} THEN << >>
        ELSE WakePhrases(w)[CHOOSE k \in hits : \A j \in hits : k <= j]

\* the characters of the class [\s,\.]
GapChars == {" ", ",", "."}

\* the end of a match of the pattern at position i of s, 0 when there is none:
\* a blank of the phrase stands for any run of gap characters
RECURSIVE MatchEnd(_, _, _)
MatchEnd(pat, s, i) ==
    IF pat = << >> THEN i - 1
    ELSE IF Head(pat) = " "
         THEN IF i <= Len(s) /\ s[i] \in GapChars
              THEN MatchEnd(pat, s, i + 1)
              ELSE MatchEnd(Tail(pat), s, i)
         ELSE IF i <= Len(s) /\ LowerChar(s[i]) = LowerChar(Head(pat))
              THEN MatchEnd(Tail(pat), s, i + 1)
              ELSE 0

\* re.search(wake_pattern, text_lower, re.IGNORECASE).end(), 0 without a match
WakeEnd(phrase, text_lower) ==
    LET starts == {i \in 1..Len(text_lower) : MatchEnd(phrase, text_lower, i) > 0}
    IN  IF starts = {} THEN 0
        ELSE MatchEnd(phrase, text_lower,
                      CHOOSE i \in starts : \A j \in starts : i <= j)

\* the command the detector extracts from the transcript t it detected the
\* phrase in: the index found in the lower-cased, stripped transcript cuts
\* the transcript as it was returned
CommandText(phrase, t) ==
    LET text_lower == Strip(Lower(t))
        wake_end == WakeEnd(phrase, text_lower)
    IN  IF wake_end = 0 THEN << >>
        ELSE LStripChars(Strip(Drop(t, wake_end)), LeadingPunctuation)

\* the command is handed to the callback
PassesCommandMutant(cmd) == cmd # << >>
PassesCommand(cmd) ==
    cmd # << >> /\ Len(cmd) > CommandLengthFloor

\* what the speech recogniser may return for a window
Blanks(n) == [i \in 1..n |-> " "]
Leads == {Blanks(n) : n \in 0..MaxLead}
Prefixes == {<< >>, <<"h", "e", "y", " ">>, <<"H", "e", "y", " ">>,
             <<"O", "k", ",", " ">>}
Separators == {<< >>, <<" ">>, <<",", " ">>, <<".">>}
Commands == {<< >>, <<"h", "i">>, <<"o", "f", "f">>, <<"o", "p", "e", "n">>,
             <<"w", "h", "a", "t", " ", "t", "i", "m", "e", " ", "i", "s", " ",
               "i", "t">>}
Trails == {<< >>, <<" ">>}
Spoken(w) ==
    {l \o p \o n \o s \o c \o r :
        l \in Leads, p \in Prefixes, n \in {w, Capitalize(w)},
        s \in Separators, c \in Commands, r \in Trails}
Transcripts(w) ==
    Spoken(w) \cup {<< >>} \cup {l \o c : l \in Leads, c \in Commands}

\* GeminiCore has no attribute trigger_listening: the hotkey handler raises
\* before it schedules anything
HotkeySchedulesMutant == TRUE
HotkeySchedules == FALSE

\* start_detection is called for the configured wake word
DetectorInit ==
    /\ CoreInit /\ ApOff /\ RecOff /\ SpkOff /\ ChatOff
    /\ det_pc = "start"
    /\ wake_word \in WakeWords
    /\ det_running = FALSE
    /\ det_stream = "closed"
    /\ rec_streams = 0
    /\ det_text = << >>
    /\ detected_wake_word = << >>
    /\ command_text = << >>
    /\ cb_pc = [t \in Tasks |-> "none"]
    /\ cb_calls = 0
    /\ cb_with_command = FALSE
    /\ cb_arg = << >>
    /\ recordings = 0
    /\ hotkey_presses = 0
    /\ hotkey_idle = FALSE

windowVars == << det_text, detected_wake_word, command_text, cb_calls,
                 cb_with_command, cb_arg, recordings >>

\* the detector forgets the window it handled
ForgetWindow ==
    /\ det_text' = << >>
    /\ detected_wake_word' = << >>
    /\ command_text' = << >>
    /\ cb_calls' = 0
    /\ cb_with_command' = FALSE
    /\ cb_arg' = << >>
    /\ recordings' = 0

\* a turn of the session is being thought about or spoken
InTurn(t) == cb_pc[t] \in {"thinking", "speaking"}

\* no callback is running: the session is idle
SessionIdle == \A t \in Tasks : cb_pc[t] = "none"

\* is_running is set and the microphone stream is opened
DetStart ==
    /\ det_pc = "start"
    /\ det_running' = TRUE
    /\ det_stream' = "open"
    /\ det_pc' = "loop_head"
    /\ UNCHANGED << wake_word, rec_streams, windowVars, cb_pc, hotkey_presses,
                    hotkey_idle >>
    /\ UNCHANGED nonDetVars

\* while self.is_running: a window of frames is read
DetLoopEnter ==
    /\ det_pc = "loop_head"
    /\ det_running
    /\ det_pc' = "reading"
    /\ UNCHANGED << wake_word, det_running, det_stream, rec_streams, windowVars,
                    cb_pc, hotkey_presses, hotkey_idle >>
    /\ UNCHANGED nonDetVars

\* the flag is cleared: the loop ends
DetLoopExit ==
    /\ det_pc = "loop_head"
    /\ ~det_running
    /\ det_pc' = "finally"
    /\ UNCHANGED << wake_word, det_running, det_stream, rec_streams, windowVars,
                    cb_pc, hotkey_presses, hotkey_idle >>
    /\ UNCHANGED nonDetVars

\* no frame of the window is louder than the threshold
DetWindowSilent ==
    /\ det_pc = "reading"
    /\ det_pc' = "loop_head"
    /\ UNCHANGED << wake_word, det_running, det_stream, rec_streams, windowVars,
                    cb_pc, hotkey_presses, hotkey_idle >>
    /\ UNCHANGED nonDetVars

\* the window holds speech and is transcribed
DetWindowSpeech ==
    /\ det_pc = "reading"
    /\ det_text' \in Transcripts(wake_word)
    /\ det_pc' = "transcribed"
    /\ UNCHANGED << wake_word, det_running, det_stream, rec_streams,
                    detected_wake_word, command_text, cb_calls, cb_with_command,
                    cb_arg, recordings, cb_pc, hotkey_presses, hotkey_idle >>
    /\ UNCHANGED nonDetVars

\* reading the stream raises: the exception ends the loop
DetReadRaises ==
    /\ det_pc = "reading"
    /\ det_pc' = "finally"
    /\ UNCHANGED << wake_word, det_running, det_stream, rec_streams, windowVars,
                    cb_pc, hotkey_presses, hotkey_idle >>
    /\ UNCHANGED nonDetVars

\* the transcript contains no candidate phrase
DetNoWakeWord ==
    /\ det_pc = "transcribed"
    /\ DetectedWakeWord(wake_word, det_text) = << >>
    /\ det_pc' = "loop_head"
    /\ ForgetWindow
    /\ UNCHANGED << wake_word, det_running, det_stream, rec_streams, cb_pc,
                    hotkey_presses, hotkey_idle >>
    /\ UNCHANGED nonDetVars

\* a candidate phrase is found: the command is extracted and the callback
\* is called, with the command or without
DetWakeWord ==
    /\ det_pc = "transcribed"
    /\ DetectedWakeWord(wake_word, det_text) # << >>
    /\ detected_wake_word' = DetectedWakeWord(wake_word, det_text)
    /\ command_text' = CommandText(detected_wake_word', det_text)
    /\ cb_with_command' = PassesCommand(command_text')
    /\ cb_arg' = IF cb_with_command' THEN command_text' ELSE << >>
    /\ cb_calls' = cb_calls + 1
    /\ cb_pc' = [cb_pc EXCEPT !["detector"] = "entered"]
    /\ det_pc' = "callback"
    /\ UNCHANGED << wake_word, det_running, det_stream, rec_streams, det_text,
                    recordings, hotkey_presses, hotkey_idle >>
    /\ UNCHANGED nonDetVars

\* the command the task t was called with (the hotkey passes none)
TaskCommand(t) == IF t = "detector" THEN cb_arg ELSE << >>

\* the task returns; the detector goes on after the callback it awaited
CbReturn(t) ==
    /\ cb_pc' = [cb_pc EXCEPT ![t] = "none"]
    /\ det_pc' = IF t = "detector" THEN "cooldown" ELSE det_pc

\* _on_wake_detected announces Listening and uses the command it was given
CbUseCommand(t) ==
    /\ cb_pc[t] = "entered"
    /\ TaskCommand(t) # << >>
    /\ cb_pc' = [cb_pc EXCEPT ![t] = "thinking"]
    /\ UNCHANGED << det_pc, wake_word, det_running, det_stream, rec_streams,
                    windowVars, hotkey_presses, hotkey_idle >>
    /\ UNCHANGED nonDetVars

\* _on_wake_detected announces Listening and, given no command, opens an
\* input stream of its own to record one
CbRecord(t) ==
    /\ cb_pc[t] = "entered"
    /\ TaskCommand(t) = << >>
    /\ rec_streams' = rec_streams + 1
    /\ recordings' = recordings + 1
    /\ cb_pc' = [cb_pc EXCEPT ![t] = "recording"]
    /\ UNCHANGED << det_pc, wake_word, det_running, det_stream, det_text,
                    detected_wake_word, command_text, cb_calls, cb_with_command,
                    cb_arg, hotkey_presses, hotkey_idle >>
    /\ UNCHANGED nonDetVars

\* the recording ends, its stream is closed, a command was heard
CbHeard(t) ==
    /\ cb_pc[t] = "recording"
    /\ rec_streams' = rec_streams - 1
    /\ cb_pc' = [cb_pc EXCEPT ![t] = "thinking"]
    /\ UNCHANGED << det_pc, wake_word, det_running, det_stream, windowVars,
                    hotkey_presses, hotkey_idle >>
    /\ UNCHANGED nonDetVars

\* the recording ends, its stream is closed, nothing was heard: Idle
CbNothingHeard(t) ==
    /\ cb_pc[t] = "recording"
    /\ rec_streams' = rec_streams - 1
    /\ CbReturn(t)
    /\ UNCHANGED << wake_word, det_running, det_stream, windowVars,
                    hotkey_presses, hotkey_idle >>
    /\ UNCHANGED nonDetVars

\* the model answers: the turn goes from Thinking to Speaking
CbThink(t) ==
    /\ cb_pc[t] = "thinking"
    /\ cb_pc' = [cb_pc EXCEPT ![t] = "speaking"]
    /\ UNCHANGED << det_pc, wake_word, det_running, det_stream, rec_streams,
                    windowVars, hotkey_presses, hotkey_idle >>
    /\ UNCHANGED nonDetVars

\* the answer is spoken and the turn ends
CbSpeak(t) ==
    /\ cb_pc[t] = "speaking"
    /\ CbReturn(t)
    /\ UNCHANGED << wake_word, det_running, det_stream, rec_streams, windowVars,
                    hotkey_presses, hotkey_idle >>
    /\ UNCHANGED nonDetVars

\* asyncio.sleep(5) after the callback
DetCooldown ==
    /\ det_pc = "cooldown"
    /\ det_pc' = "loop_head"
    /\ ForgetWindow
    /\ UNCHANGED << wake_word, det_running, det_stream, rec_streams, cb_pc,
                    hotkey_presses, hotkey_idle >>
    /\ UNCHANGED nonDetVars

\* finally: the stream is closed and PyAudio terminated
DetFinally ==
    /\ det_pc = "finally"
    /\ det_stream' = "closed"
    /\ det_pc' = "closed"
    /\ UNCHANGED << wake_word, det_running, rec_streams, windowVars, cb_pc,
                    hotkey_presses, hotkey_idle >>
    /\ UNCHANGED nonDetVars

\* GeminiCore.stop: stop_detection clears the flag
DetStop ==
    /\ det_pc \notin {"start", "closed"}
    /\ det_running
    /\ det_running' = FALSE
    /\ UNCHANGED << det_pc, wake_word, det_stream, rec_streams, windowVars, cb_pc,
                    hotkey_presses, hotkey_idle >>
    /\ UNCHANGED nonDetVars

\* Win+J is pressed: the handler evaluates self.jarvis.trigger_listening()
HotkeyPress ==
    /\ det_pc \notin {"start", "closed"}
    /\ hotkey_presses < MaxPresses
    /\ hotkey_presses' = hotkey_presses + 1
    /\ hotkey_idle' = SessionIdle
    /\ cb_pc' = IF HotkeySchedules /\ cb_pc["hotkey"] = "none"
                THEN [cb_pc EXCEPT !["hotkey"] = "entered"]
                ELSE cb_pc
    /\ UNCHANGED << det_pc, wake_word, det_running, det_stream, rec_streams,
                    windowVars >>
    /\ UNCHANGED nonDetVars

DetectorNext ==
    \/ DetStart
    \/ DetLoopEnter
    \/ DetLoopExit
    \/ DetWindowSilent
    \/ DetWindowSpeech
    \/ DetReadRaises
    \/ DetNoWakeWord
    \/ DetWakeWord
    \/ \E t \in Tasks : CbUseCommand(t)
    \/ \E t \in Tasks : CbRecord(t)
    \/ \E t \in Tasks : CbHeard(t)
    \/ \E t \in Tasks : CbNothingHeard(t)
    \/ \E t \in Tasks : CbThink(t)
    \/ \E t \in Tasks : CbSpeak(t)
    \/ DetCooldown
    \/ DetFinally
    \/ DetStop
    \/ HotkeyPress

DetectorSpec == DetectorInit /\ [][DetectorNext]_vars

DetTypeOK ==
    /\ det_pc \in {"off", "start", "loop_head", "reading", "transcribed",
                   "callback", "cooldown", "finally", "closed"}
    /\ det_running \in BOOLEAN
    /\ det_stream \in {"open", "closed"}
    /\ rec_streams \in 0..2
    /\ cb_pc \in [Tasks -> {"none", "entered", "recording", "thinking", "speaking"}]
    /\ cb_calls \in 0..1
    /\ recordings \in 0..2
    /\ hotkey_presses \in 0..MaxPresses

\* ===================================================================
\* GeminiCore._record_and_transcribe_command (src/agent/gemini.py): the
\* recording of one command, every frame read is one step
\* ===================================================================
\* int(SILENCE_DURATION * RATE / CHUNK), int(MAX_DURATION * RATE / CHUNK),
\* int(MIN_AUDIO_LENGTH * RATE / CHUNK)
max_silent_chunks == (SILENCE_DURATION * RATE) \div CHUNK
max_chunks == (MAX_DURATION * RATE) \div CHUNK
min_chunks == (MIN_AUDIO_LENGTH_TENTHS * RATE) \div (10 * CHUNK)

\* for i in range(max_chunks)
RecLoopHasNextMutant(i) == i <= max_chunks
RecLoopHasNext(i) == i < max_chunks

\* the energies a frame can have, around the threshold
Energies == {SILENCE_THRESHOLD - 1, SILENCE_THRESHOLD, SILENCE_THRESHOLD + 1}

\* energy < SILENCE_THRESHOLD
Quiet(energy) == energy < SILENCE_THRESHOLD

\* silent_chunks after the frame of index i with the given energy
SilentAfter(i, silent, quiet) ==
    IF i >= min_chunks
    THEN IF quiet THEN silent + 1 ELSE 0
    ELSE silent

\* a recorder that stops as soon as the count reaches max_silent_chunks
SilenceEndsMutant(i, silent, quiet) ==
    i >= min_chunks /\ quiet /\ silent + 1 >= max_silent_chunks
\* the break of line 553
SilenceEnds(i, silent, quiet) ==
    i >= min_chunks /\ quiet /\ silent + 1 > max_silent_chunks

\* the recording of a command begins while the assistant runs
RecorderInit ==
    /\ CoreInit /\ ApOff /\ DetOff /\ SpkOff /\ ChatOff
    /\ rec_pc = "start"
    /\ rec_open = FALSE
    /\ rec_i = 0
    /\ silent_chunks = 0
    /\ rec_frames = 0
    /\ rec_handed = 0
    /\ rec_text = "none"
    /\ core_running = TRUE
    /\ rec_energy = 0
    /\ rec_loud = FALSE

\* the input stream is opened and the recorder waits 0.3 s
RecOpen ==
    /\ rec_pc = "start"
    /\ rec_open' = TRUE
    /\ rec_pc' = "loop"
    /\ UNCHANGED << rec_i, silent_chunks, rec_frames, rec_handed, rec_text,
                    core_running, rec_energy,
                    rec_loud >>
    /\ UNCHANGED nonRecVars

\* one iteration of the loop: a frame is read and appended, its energy
\* compared with the threshold
RecRead ==
    /\ rec_pc = "loop"
    /\ RecLoopHasNext(rec_i)
    /\ \E energy \in Energies :
          /\ rec_energy' = energy
          /\ rec_loud' = (rec_loud \/ energy > SILENCE_THRESHOLD)
          /\ silent_chunks' = SilentAfter(rec_i, silent_chunks, Quiet(energy))
          /\ rec_pc' = IF SilenceEnds(rec_i, silent_chunks, Quiet(energy))
                       THEN "save" ELSE "loop"
          /\ rec_i' = IF SilenceEnds(rec_i, silent_chunks, Quiet(energy))
                      THEN rec_i ELSE rec_i + 1
    /\ rec_frames' = rec_frames + 1
    /\ UNCHANGED << rec_open, rec_handed, rec_text, core_running >>
    /\ UNCHANGED nonRecVars

\* the range is exhausted
RecLoopEnd ==
    /\ rec_pc = "loop"
    /\ ~RecLoopHasNext(rec_i)
    /\ rec_pc' = "save"
    /\ UNCHANGED << rec_open, rec_i, silent_chunks, rec_frames, rec_handed,
                    rec_text, core_running, rec_energy,
                    rec_loud >>
    /\ UNCHANGED nonRecVars

\* reading raises: the handler of the function returns "" and the stream
\* stays as it is
RecReadRaises ==
    /\ rec_pc = "loop"
    /\ RecLoopHasNext(rec_i)
    /\ rec_pc' = "done"
    /\ rec_text' = "empty"
    /\ UNCHANGED << rec_open, rec_i, silent_chunks, rec_frames, rec_handed,
                    core_running, rec_energy,
                    rec_loud >>
    /\ UNCHANGED nonRecVars

\* the stream is closed, the frames are written to a file and the file is
\* given to the transcriber
RecSave ==
    /\ rec_pc = "save"
    /\ rec_open' = FALSE
    /\ rec_handed' = rec_frames
    /\ rec_pc' = "transcribe"
    /\ UNCHANGED << rec_i, silent_chunks, rec_frames, rec_text, core_running, rec_energy,
                    rec_loud >>
    /\ UNCHANGED nonRecVars

\* the transcription comes back: a text of at least 3 characters is
\* returned, anything else and any exception gives ""
RecTranscribed ==
    /\ rec_pc = "transcribe"
    /\ rec_text' \in {"empty", "command"}
    /\ rec_pc' = "done"
    /\ UNCHANGED << rec_open, rec_i, silent_chunks, rec_frames, rec_handed,
                    core_running, rec_energy,
                    rec_loud >>
    /\ UNCHANGED nonRecVars

\* GeminiCore.stop is called while the command is recorded
RecStop ==
    /\ rec_pc # "done"
    /\ core_running
    /\ core_running' = FALSE
    /\ UNCHANGED << rec_pc, rec_open, rec_i, silent_chunks, rec_frames,
                    rec_handed, rec_text, rec_energy,
                    rec_loud >>
    /\ UNCHANGED nonRecVars

RecorderNext ==
    \/ RecOpen
    \/ RecRead
    \/ RecLoopEnd
    \/ RecReadRaises
    \/ RecSave
    \/ RecTranscribed
    \/ RecStop

RecorderSpec == RecorderInit /\ [][RecorderNext]_vars

RecTypeOK ==
    /\ rec_pc \in {"off", "start", "loop", "save", "transcribe", "done"}
    /\ rec_open \in BOOLEAN
    /\ rec_i \in 0..max_chunks
    /\ silent_chunks \in 0..(max_silent_chunks + 1)
    /\ rec_frames \in 0..max_chunks
    /\ rec_handed \in 0..max_chunks
    /\ rec_text \in {"none", "empty", "command"}
    /\ core_running \in BOOLEAN
    /\ rec_energy \in Energies \cup {0}
    /\ rec_loud \in BOOLEAN

\* ===================================================================
\* ElevenLabsTTS.speak (src/speech/tts.py) called with any text and any
\* callbacks, every await of the code is one step
\* ===================================================================
\* the texts speak is called with: "", blanks only, or something to say
SpeakTexts == {"empty", "blank", "text"}

\* a callback argument: not given, given, or given and raising
Callbacks == {"none", "ok", "raises"}

\* not text or len(text.strip()) == 0
NoTextToSpeak(t) == t \in {"empty", "blank"}

\* a call of speak with its arguments
SpeakCalled ==
    /\ sp_pc = "call"
    /\ sp_text \in SpeakTexts
    /\ sp_on_start \in Callbacks
    /\ sp_on_end \in Callbacks
    /\ sp_failed = "none"
    /\ on_start_calls = 0
    /\ on_end_calls = 0

SpeakInit ==
    /\ CoreInit /\ ApOff /\ DetOff /\ RecOff /\ ChatOff
    /\ SpeakCalled
    /\ sp_calls = 1

\* there is nothing to speak: speak returns at once
SpeakNoText ==
    /\ sp_pc = "call"
    /\ NoTextToSpeak(sp_text)
    /\ sp_pc' = "returned"
    /\ UNCHANGED << sp_text, sp_on_start, sp_on_end, sp_failed, on_start_calls,
                    on_end_calls, sp_calls >>
    /\ UNCHANGED nonSpkVars

\* on_start is called if it is given; what it raises is caught
SpeakOnStart ==
    /\ sp_pc = "call"
    /\ ~NoTextToSpeak(sp_text)
    /\ on_start_calls' = IF sp_on_start = "none" THEN on_start_calls
                         ELSE on_start_calls + 1
    /\ sp_pc' = "convert"
    /\ UNCHANGED << sp_text, sp_on_start, sp_on_end, sp_failed, on_end_calls,
                    sp_calls >>
    /\ UNCHANGED nonSpkVars

\* the speech is synthesised
SpeakConvert ==
    /\ sp_pc = "convert"
    /\ sp_pc' = "play"
    /\ UNCHANGED << sp_text, sp_on_start, sp_on_end, sp_failed, on_start_calls,
                    on_end_calls, sp_calls >>
    /\ UNCHANGED nonSpkVars

\* the synthesis raises: the exception is caught
SpeakConvertRaises ==
    /\ sp_pc = "convert"
    /\ sp_failed' = "convert"
    /\ sp_pc' = "finally"
    /\ UNCHANGED << sp_text, sp_on_start, sp_on_end, on_start_calls,
                    on_end_calls, sp_calls >>
    /\ UNCHANGED nonSpkVars

\* the audio is played
SpeakPlay ==
    /\ sp_pc = "play"
    /\ sp_pc' = "finally"
    /\ UNCHANGED << sp_text, sp_on_start, sp_on_end, sp_failed, on_start_calls,
                    on_end_calls, sp_calls >>
    /\ UNCHANGED nonSpkVars

\* the playback raises: the exception is caught
SpeakPlayRaises ==
    /\ sp_pc = "play"
    /\ sp_failed' = "play"
    /\ sp_pc' = "finally"
    /\ UNCHANGED << sp_text, sp_on_start, sp_on_end, on_start_calls,
                    on_end_calls, sp_calls >>
    /\ UNCHANGED nonSpkVars

\* finally: on_end is called if it is given; what it raises is caught
SpeakFinally ==
    /\ sp_pc = "finally"
    /\ on_end_calls' = IF sp_on_end = "none" THEN on_end_calls
                       ELSE on_end_calls + 1
    /\ sp_pc' = "returned"
    /\ UNCHANGED << sp_text, sp_on_start, sp_on_end, sp_failed, on_start_calls,
                    sp_calls >>
    /\ UNCHANGED nonSpkVars

\* speak is called again
SpeakAgain ==
    /\ sp_pc = "returned"
    /\ sp_calls < MaxSpeaks
    /\ sp_calls' = sp_calls + 1
    /\ sp_pc' = "call"
    /\ sp_text' \in SpeakTexts
    /\ sp_on_start' \in Callbacks
    /\ sp_on_end' \in Callbacks
    /\ sp_failed' = "none"
    /\ on_start_calls' = 0
    /\ on_end_calls' = 0
    /\ UNCHANGED nonSpkVars

SpeakNext ==
    \/ SpeakNoText
    \/ SpeakOnStart
    \/ SpeakConvert
    \/ SpeakConvertRaises
    \/ SpeakPlay
    \/ SpeakPlayRaises
    \/ SpeakFinally
    \/ SpeakAgain

SpeakSpec == SpeakInit /\ [][SpeakNext]_vars

SpkTypeOK ==
    /\ sp_pc \in {"off", "call", "convert", "play", "finally", "returned"}
    /\ sp_text \in SpeakTexts
    /\ sp_on_start \in Callbacks
    /\ sp_on_end \in Callbacks
    /\ sp_failed \in {"none", "convert", "play"}
    /\ on_start_calls \in 0..1
    /\ on_end_calls \in 0..1
    /\ sp_calls \in 0..MaxSpeaks

\* ===================================================================
\* The chat window: ChatWindow.send_message on the GUI thread and
\* ChatWorker.run on the worker thread (src/chat_app.py)
\* ===================================================================
\* the messages are numbered in the order they are sent
Messages == 1..MaxMessages

\* chat_app.py:201-219: the window is built, the worker thread starts
ChatInit ==
    /\ CoreInit /\ ApOff /\ DetOff /\ RecOff /\ SpkOff
    /\ cw_pc = "loop"
    /\ cw_running = TRUE
    /\ current_message = 0
    /\ cw_message = 0
    /\ cw_sent = 0
    /\ cw_handled = [m \in Messages |-> 0]

\* chat_app.py:455-471 and 185-187: the GUI thread passes the text to the
\* worker, which stores it in the one slot it has
ChatSend ==
    /\ cw_pc # "off"
    /\ cw_sent < MaxMessages
    /\ cw_sent' = cw_sent + 1
    /\ current_message' = cw_sent + 1
    /\ UNCHANGED << cw_pc, cw_running, cw_message, cw_handled >>
    /\ UNCHANGED nonChatVars

\* chat_app.py:43: while self.running
CwLoopHead ==
    /\ cw_pc = "loop"
    /\ cw_pc' = IF cw_running THEN "test" ELSE "done"
    /\ UNCHANGED << cw_running, current_message, cw_message, cw_sent, cw_handled >>
    /\ UNCHANGED nonChatVars

\* chat_app.py:44: if self.current_message
CwTest ==
    /\ cw_pc = "test"
    /\ cw_pc' = IF current_message # 0 THEN "read" ELSE "sleep"
    /\ UNCHANGED << cw_running, current_message, cw_message, cw_sent, cw_handled >>
    /\ UNCHANGED nonChatVars

\* chat_app.py:45: message = self.current_message
CwRead ==
    /\ cw_pc = "read"
    /\ cw_message' = current_message
    /\ cw_pc' = "clear"
    /\ UNCHANGED << cw_running, current_message, cw_sent, cw_handled >>
    /\ UNCHANGED nonChatVars

\* chat_app.py:46: self.current_message = None
CwClear ==
    /\ cw_pc = "clear"
    /\ current_message' = 0
    /\ cw_pc' = "handle"
    /\ UNCHANGED << cw_running, cw_message, cw_sent, cw_handled >>
    /\ UNCHANGED nonChatVars

\* chat_app.py:47: _handle_message is entered with the message
CwHandle ==
    /\ cw_pc = "handle"
    /\ cw_handled' = [cw_handled EXCEPT ![cw_message] = @ + 1]
    /\ cw_pc' = "handling"
    /\ UNCHANGED << cw_running, current_message, cw_message, cw_sent >>
    /\ UNCHANGED nonChatVars

\* chat_app.py:53-183: _handle_message catches what it raises and returns
CwHandled ==
    /\ cw_pc = "handling"
    /\ cw_pc' = "loop"
    /\ UNCHANGED << cw_running, current_message, cw_message, cw_sent, cw_handled >>
    /\ UNCHANGED nonChatVars

\* chat_app.py:48-51: nothing to do, sleep and look again
CwSleep ==
    /\ cw_pc = "sleep"
    /\ cw_pc' = "loop"
    /\ UNCHANGED << cw_running, current_message, cw_message, cw_sent, cw_handled >>
    /\ UNCHANGED nonChatVars

\* chat_app.py:189-191 (closeEvent, 489): the window is closed
ChatStop ==
    /\ cw_running
    /\ cw_running' = FALSE
    /\ UNCHANGED << cw_pc, current_message, cw_message, cw_sent, cw_handled >>
    /\ UNCHANGED nonChatVars

ChatNext ==
    \/ ChatSend
    \/ CwLoopHead
    \/ CwTest
    \/ CwRead
    \/ CwClear
    \/ CwHandle
    \/ CwHandled
    \/ CwSleep
    \/ ChatStop

ChatSpec == ChatInit /\ [][ChatNext]_vars

ChatTypeOK ==
    /\ cw_pc \in {"off", "loop", "test", "read", "clear", "handle", "handling",
                  "sleep", "done"}
    /\ cw_running \in BOOLEAN
    /\ current_message \in 0..MaxMessages
    /\ cw_message \in 0..MaxMessages
    /\ cw_sent \in 0..MaxMessages

\* ===================================================================
\* Properties
\* ===================================================================
Last(q) == q[Len(q)]

LoopPcs == {"loop_head", "tools", "api_loop"}

\* steps the loop can still take: the iterations left, and inside one
\* iteration the function calls left to execute and the attempts left for
\* the resubmission
InLoop == pc \in LoopPcs

RankWidth == max_retries + MaxCalls + 3

LoopRank ==
    (max_iterations - iter) * RankWidth
    + CASE pc = "loop_head" -> max_retries + MaxCalls + 2
        [] pc = "tools"     -> max_retries + 1 + fcLeft
        [] pc = "api_loop"  -> max_retries - attempt
        [] OTHER            -> 0

\* C1: whatever the reasoning model answers, also when every response asks
\* for a function call, the tool loop of _process_interaction terminates:
\* every step inside the loop lowers a rank that never goes below zero, so
\* no behaviour stays in the loop for ever; and one user message gets at
\* most MaxToolIterations tool-execution rounds.
C1_ToolLoopTerminates ==
    /\ [](toolRounds <= MAX_TOOL_ITERATIONS)
    /\ [](InLoop => LoopRank >= 0)
    /\ [][(InLoop /\ InLoop') => LoopRank' < LoopRank]_vars

\* the loop is left after the fifth tool round although the model asks again
C1_Witness ==
    /\ pc = "loop_head"
    /\ toolRounds = MAX_TOOL_ITERATIONS
    /\ iter = max_iterations
    /\ FunctionCalls(response) > 0

\* C2 as stated: one user message gets at most MaxToolIterations completed
\* remote reasoning calls, the initial call included.
C2_Original == roundTrips <= MAX_TOOL_ITERATIONS

\* C2 amended: one user message gets at most 1 + MaxToolIterations completed
\* remote reasoning calls: the initial call and at most MaxToolIterations
\* resubmissions, one per tool round; retries of a call are not counted.
C2_RoundTripBound ==
    /\ roundTrips <= 1 + MAX_TOOL_ITERATIONS
    /\ (roundTrips > 0 => roundTrips = 1 + iter)
    /\ toolRounds \in {iter, iter + 1}

C2_Witness ==
    /\ roundTrips = 1 + MAX_TOOL_ITERATIONS
    /\ pc = "loop_head"

\* C3: after any sequence of turns conversation_history holds at most
\* MaxConversationTurns entries.
C3_HistoryBounded == Len(conversation_history) <= MAX_CONVERSATION_TURNS

\* a full history whose first entry is not a user turn: the front was cut
C3_Witness ==
    /\ Len(conversation_history) = MAX_CONVERSATION_TURNS
    /\ conversation_history[1] # "user"
    /\ turns = MaxTurns

\* C4: when the wake callback has returned, the last state notification was
\* on_idle or on_listening: no turn leaves the session in Thinking or Speaking.
C4_TurnEndsIdleOrListening ==
    pc = "wake_wait" => gui \in {"Idle", "Listening"}

\* C5: for a speakable response on_speaking_end has not fired while speak is
\* still running and has fired exactly once when speak is over, whether or
\* not the synthesis raised.
C5_SpeakingEndOnce ==
    /\ (pc \in {"tts_start", "tts_synth", "tts_end"} /\ ttsRet = "pi_post_speak")
          => speakEnds = 0
    /\ (pc \in {"pi_post_speak", "pi_idle_check", "fu_listen", "fu_record",
               "fu_answer"}
          /\ Speakable(response.text))
          => speakEnds = 1

\* the synthesis raised and the turn is past the speaking of its response
C5_Witness ==
    /\ pc = "pi_idle_check"
    /\ Speakable(response.text)
    /\ ttsRaised
    /\ speakEnds = 1

\* C6: a tool that fails ToolRetryAttempts times and then succeeds is invoked
\* 1 + ToolRetryAttempts times and the model gets the success result.
C6_RetryThenSuccess ==
    (toolPlan.kind \in FailureKinds /\ toolPlan.fails = TOOL_RETRY_ATTEMPTS)
       => /\ toolInvocations = 1 + TOOL_RETRY_ATTEMPTS
          /\ Last(function_responses) = "success"

\* C7: a tool that fails on every attempt is invoked 1 + ToolRetryAttempts
\* times and the model gets the structured failure (status = error, attempts,
\* suggestion).
C7_RetryExhaustion ==
    (toolPlan.kind \in FailureKinds /\ toolPlan.fails > TOOL_RETRY_ATTEMPTS)
       => /\ toolInvocations = 1 + TOOL_RETRY_ATTEMPTS
          /\ Last(function_responses) = "structured_failure"

\* C8: a first attempt that returns status == "error", returns
\* success == false or raises is followed by a retry; a first attempt with
\* any other result ends the retrying with that result.
C8_FailureKindsRetried ==
    /\ toolPlan.kind \in FailureKinds => toolInvocations >= 2
    /\ toolPlan.kind = "success" =>
          toolInvocations = 1 /\ Last(function_responses) = "success"

\* C9: a remote call is given up as overloaded only after max_retries
\* retries, which were preceded by waits of base * 2^attempt seconds.
C9_TransientRetries ==
    (pc = "pi_except" /\ apiErr = "transient")
       => /\ Len(waits) = max_retries
          /\ \A i \in 1..Len(waits) : waits[i] = retry_delay_base * Pow2(i - 1)

\* C10: once a remote call has failed with an error that is not transient,
\* the turn is in its error handler: the failed attempt is followed by no
\* wait, no further attempt and no tool execution.
C10_FatalNotRetried ==
    fatalSeen =>
       /\ pc \in {"pi_except", "pi_except_idle"}
       /\ apiErr = "fatal"
       /\ Len(waits) = attempt
       /\ fcLeft = 0

\* a resubmission inside the tool loop failed at its first attempt
C10_Witness ==
    /\ fatalSeen
    /\ pc = "pi_except"
    /\ toolRounds > 0
    /\ attempt = 0
    /\ waits = << >>

\* C11: when the response of a turn has been spoken, the session listens
\* again (on_listening fires and a recording starts) if the response ends
\* with a question mark or conversation_history is not empty, and fires
\* on_idle in every other case.
C11_ContinuationPolicy ==
    /\ [][(pc = "pi_post_speak" /\ response.text = "question")
             => pc' = "fu_listen"]_vars
    /\ [][(pc = "fu_listen") => (note' = "listening" /\ pc' = "fu_record")]_vars
    /\ [][(pc = "cont_head" /\ continuous_mode)
             => (note' = "listening" /\ pc' = "cont_record")]_vars
    /\ [][(pc = "pi_idle_check" /\ Speakable(response.text))
             => IF conversation_history # << >>
                   THEN pc' = "cont_head" /\ continuous_mode'
                   ELSE note' = "idle" /\ gui' = "Idle"]_vars

\* C12: a turn that ends in Idle leaves conversation_history empty, so the
\* history is empty whenever the session waits for the next wake word: a
\* conversation begun by a wake detection starts without the turns of an
\* earlier one.
C12_IdleClearsHistory ==
    /\ pc = "wake_wait" => conversation_history = << >>
    /\ (note = "idle" /\ gui = "Idle") => conversation_history = << >>

\* C13: when the recording that follows a question gives no transcript (an
\* empty or too short transcription, or an error while recording), the next
\* step clears conversation_history, fires on_idle and returns to the loop
\* that awaited the turn: no _process_interaction is started for that
\* attempt, so no remote reasoning call is made.
C13_NoAnswerEndsConversation ==
    [][(pc = "fu_answer" /\ recorded \in {"empty", "short", "error"})
          => /\ conversation_history' = << >>
             /\ note' = "idle"
             /\ gui' = "Idle"
             /\ pc' = ReturnPc(caller)
             /\ turns' = turns
             /\ roundTrips' = 0]_vars

\* the question came from a follow-up turn, so there is a history to clear,
\* and the recording of the answer raised
C13_Witness ==
    /\ pc = "fu_answer"
    /\ recorded = "error"
    /\ use_history
    /\ Len(conversation_history) >= 3

\* C14 as stated: the first response whose done is not null ends the run
\* with status success, the done value as message and the iteration count.
C14_Original ==
    [][(ap_pc = "parse" /\ instructions.kind = "object"
           /\ instructions.done # "null")
          => /\ ap_pc' = "returned"
             /\ result'.status = "success"
             /\ result'.message = instructions.done
             /\ result'.steps_taken = cycles]_vars

\* C14 amended: the first response whose done is a true value (a non-empty
\* message) ends the run with status success, that message and the number
\* of iterations started; that response leads to no capture, no model call
\* and no step, also when it carries steps, and nothing happens after the
\* return. A done that is not null but false ("", false, 0) does not end
\* the run.
C14_DoneEndsRun ==
    /\ [][(ap_pc = "parse" /\ instructions.kind = "object"
              /\ instructions.done = "message")
             => /\ ap_pc' = "returned"
                /\ result'.status = "success"
                /\ result'.message = instructions.done
                /\ result'.steps_taken = cycles
                /\ captures' = captures
                /\ modelCalls' = modelCalls
                /\ step_log' = << >>]_vars
    /\ [][(ap_pc = "parse" /\ instructions.done = "falsy")
             => result'.status # "success"]_vars
    /\ [](result.status = "success"
             => /\ ap_pc = "returned"
                /\ captures = result.steps_taken
                /\ modelCalls = result.steps_taken
                /\ step_log = << >>
                /\ dispatched = << >>)
    /\ [][ap_pc = "returned" => UNCHANGED vars]_vars

\* the second response sets done and carries two steps, none was executed
C14_Witness ==
    /\ ap_pc = "returned"
    /\ result.status = "success"
    /\ result.steps_taken = 2
    /\ Len(instructions.steps) = 2
    /\ step_log = << >>
    /\ captures = 2

\* C15: a run never starts more than max_iterations cycles; partial is
\* returned after exactly max_iterations cycles; and a run in which done is
\* never set, every capture works and every model call returns ends with
\* status partial.
C15_IterationBudget ==
    /\ cycles <= ap_max
    /\ result.status = "partial" =>
          cycles = ap_max /\ result.steps_taken = ap_max
    /\ (ap_pc = "returned" /\ result.status # "success"
           /\ result.cause \notin {"capture", "model_call"})
          => result.status = "partial" /\ cycles = ap_max

\* C16: a step that names execute_autopilot is never given to the tool
\* executor: it is skipped, the step after it is the next one to run, the
\* whole list is gone through and the loop goes on to the next iteration.
C16_NoRecursiveDispatch ==
    /\ [](\A i \in 1..Len(dispatched) : dispatched[i] # "execute_autopilot")
    /\ [](\A i \in 1..Len(step_log) :
             instructions.steps[i] = "autopilot"
                => step_log[i] = "skipped_recursive")
    /\ [][(ap_pc = "steps" /\ stepIdx <= Len(instructions.steps)
              /\ instructions.steps[stepIdx] = "autopilot")
             => /\ ap_pc' = "steps"
                /\ stepIdx' = stepIdx + 1
                /\ dispatched' = dispatched
                /\ result' = NoResult]_vars
    /\ [](ap_pc = "sleep" => Len(step_log) = Len(instructions.steps))
    /\ [][ap_pc = "sleep"
             => (ap_pc' = "loop_head" /\ step_num' = step_num + 1)]_vars

\* the recursive step was skipped and the tool step after it was dispatched
C16_Witness ==
    /\ ap_pc = "sleep"
    /\ has_executor
    /\ instructions.steps = << "autopilot", "tool_ok" >>
    /\ step_log = << "skipped_recursive", "tool_result" >>
    /\ dispatched = << "other_tool" >>

\* C17: a response that is not well-formed (no JSON, JSON that is not an
\* object, "steps" that is not a list) executes no step and does not end
\* the run: the loop goes on with the next value of the range.
C17_MalformedResponseSkipped ==
    [][(ap_pc = "parse"
           /\ \/ instructions.kind \in {"not_json", "non_object"}
              \/ instructions.shape = "scalar" /\ instructions.done = "null")
          => /\ ap_pc' = "loop_head"
             /\ step_num' = step_num + 1
             /\ step_log' = << >>
             /\ result' = NoResult]_vars

\* C18: a failing step (unknown command, a command or a tool call that
\* raises, a step with neither field) does not abort the iteration: the
\* step after it is the next one to run, one step is attempted per list
\* position in order, and after the list the loop sleeps and goes on to the
\* next iteration without a return value.
C18_FailingStepDoesNotAbort ==
    /\ [](ap_pc = "steps" =>
             /\ Len(step_log) = stepIdx - 1
             /\ result = NoResult)
    /\ [][(ap_pc = "steps" /\ stepIdx <= Len(instructions.steps)
              /\ instructions.steps[stepIdx] \in
                    {"fn_unknown", "fn_raises", "tool_raises", "invalid"})
             => /\ ap_pc' = "steps"
                /\ stepIdx' = stepIdx + 1
                /\ Len(step_log') = stepIdx
                /\ step_log'[stepIdx] \in
                      {"command_failed", "tool_error", "skipped_no_executor",
                       "invalid_format"}]_vars
    /\ [][(ap_pc = "steps" /\ stepIdx > Len(instructions.steps))
             => ap_pc' = "sleep"]_vars
    /\ [][ap_pc = "sleep"
             => (ap_pc' = "loop_head" /\ result' = NoResult
                 /\ cycles' = cycles)]_vars

\* an unknown command came first and the command after it was executed
C18_Witness ==
    /\ ap_pc = "sleep"
    /\ instructions.steps = << "fn_unknown", "fn_ok" >>
    /\ step_log = << "command_failed", "command_ok" >>
    /\ cycles = ap_max

\* C19: a function call named execute_autopilot is answered with the result
\* map of the autopilot loop (success, partial or error), and no function
\* call that names a declared tool is answered with the failure map for an
\* unknown tool: every declared name has a handler.
C19_AutopilotDispatched ==
    /\ (pc = "tools" /\ toolName = "execute_autopilot")
          => Last(function_responses) \in
                {"autopilot_success", "autopilot_partial", "autopilot_error"}
    /\ (pc = "tools" /\ toolName \in SchemaNames)
          => Last(function_responses) # "unknown_tool"

WhatTimeIsIt == <<"w", "h", "a", "t", " ", "t", "i", "m", "e", " ", "i", "s",
                  " ", "i", "t">>

\* "hey w, what time is it"
HeyTranscript(w) == <<"h", "e", "y", " ">> \o w \o <<",", " ">> \o WhatTimeIsIt

\* C21: for every configured wake word w the transcript "hey w, what time
\* is it" contains a candidate phrase, and once the detector has handled it
\* the callback has been called once, with the command "what time is it"
C21_HeyCommandDelivered ==
    det_text = HeyTranscript(wake_word) =>
        /\ DetectedWakeWord(wake_word, det_text) # << >>
        /\ det_pc \in {"callback", "cooldown"} =>
               /\ cb_calls = 1
               /\ cb_with_command
               /\ cb_arg = WhatTimeIsIt

C21_Witness ==
    /\ det_text = HeyTranscript(wake_word)
    /\ det_pc = "callback"
    /\ wake_word = W_sarah
    /\ cb_arg = WhatTimeIsIt

\* ---------------------------------------------------------------- C29
\* the text that follows the first occurrence of the phrase in the
\* transcript itself, without the blanks around it and the punctuation
\* before it
FollowingText(phrase, t) ==
    LET at == Occurrences(phrase, Lower(t))
        first == CHOOSE i \in at : \A j \in at : i <= j
    IN  IF at = {} THEN << >>
        ELSE LStripChars(Strip(Drop(t, first + Len(phrase) - 1)),
                         {".", ",", "!", "?", ":", ";", " "})

\* C29: the command extracted from a transcript that contains a candidate
\* phrase is the text that follows the phrase in the transcript, leading
\* punctuation and blanks stripped, also when the transcript begins or ends
\* with blanks or has upper-case letters
C29_CommandFollowsPhrase ==
    det_pc \in {"callback", "cooldown"} =>
        command_text = FollowingText(detected_wake_word, det_text)

\* ---------------------------------------------------------------- C30
\* C30: a window without a candidate phrase leads to no call of the
\* callback; a window with one leads to exactly one call, with the command
\* when the command has at least 4 characters, and then no command is
\* recorded, and without a command otherwise, and then _on_wake_detected
\* records one
C30_CallbackOnce ==
    /\ [](det_pc \notin {"callback", "cooldown"} => cb_calls = 0)
    /\ [](det_pc = "transcribed" /\ DetectedWakeWord(wake_word, det_text) = << >>
            => cb_pc["detector"] = "none")
    /\ [](det_pc \in {"callback", "cooldown"} =>
            /\ cb_calls = 1
            /\ Len(command_text) >= 4 =>
                   /\ cb_with_command
                   /\ cb_arg = command_text
                   /\ recordings = 0
            /\ Len(command_text) < 4 =>
                   /\ ~cb_with_command
                   /\ cb_arg = << >>
                   /\ recordings = IF det_pc = "callback"
                                      /\ cb_pc["detector"] = "entered"
                                   THEN 0 ELSE 1)
    /\ [][det_pc = "transcribed" /\ DetectedWakeWord(wake_word, det_text) = << >>
            => cb_calls' = 0 /\ cb_pc' = cb_pc]_vars

C30_Witness ==
    /\ det_pc = "cooldown"
    /\ cb_calls = 1
    /\ cb_with_command
    /\ Len(cb_arg) = 4
    /\ recordings = 0

\* ---------------------------------------------------------------- C22
\* C22: whatever the energies of the frames, the file given to the
\* transcriber holds at least min_chunks and at most max_chunks frames, and
\* the recording never holds more than max_chunks frames
C22_UtteranceLength ==
    /\ rec_frames <= max_chunks
    /\ rec_pc \in {"transcribe", "done"} /\ rec_handed > 0 =>
           /\ rec_handed >= min_chunks
           /\ rec_handed <= max_chunks
    /\ rec_pc = "transcribe" => rec_handed = rec_frames /\ rec_frames >= min_chunks

C22_Witness ==
    /\ rec_pc = "transcribe"
    /\ rec_handed = max_chunks

C24_ExclusiveMicrophone == ~(det_stream = "open" /\ rec_streams > 0)

\* ---------------------------------------------------------------- C25
\* C25: once stop() has cleared the running flag the command recording
\* starts no new iteration: no further frame is read
C25_NoIterationAfterStop == [][~core_running => rec_frames' = rec_frames]_vars

\* ---------------------------------------------------------------- C26
\* C26: a press of the hotkey while the session is idle starts a run of
\* _on_wake_detected, which announces Listening and records a command
C26_HotkeyEntersListening ==
    [][hotkey_presses' = hotkey_presses + 1 /\ SessionIdle
         => \E t \in Tasks : cb_pc'[t] = "entered"]_vars

\* ---------------------------------------------------------------- C27
\* C27: a call of speak that is given an on_end callback has called it
\* exactly once when it returns, whatever the text and whether the
\* synthesis or the playback failed, and never calls it twice
C27_EndCallbackOnce ==
    /\ on_end_calls <= 1
    /\ sp_pc = "returned" /\ sp_on_end # "none" => on_end_calls = 1

\* ---------------------------------------------------------------- C28
\* the entries the running turn has added to its message list
NewTurns ==
    IF use_history /\ conversation_history # << >>
    THEN Drop(contents, Len(conversation_history))
    ELSE contents

\* C28: when a turn has obtained its final response, conversation_history
\* becomes the previous history followed by the turn's new entries (the
\* user turn, each function-call turn with its tool-result turn, the final
\* model turn), cut to the most recent MAX_CONVERSATION_TURNS entries
C28_HistoryAppended ==
    [][pc = "loop_head" /\ pc' \in {"tts_start", "pi_nospeech_start"}
         /\ response.cand
         => conversation_history' =
               LET all == conversation_history \o NewTurns
                              \o << ModelTurn(response) >>
               IN  IF Len(all) > MAX_CONVERSATION_TURNS
                   THEN SubSeq(all, Len(all) - MAX_CONVERSATION_TURNS + 1, Len(all))
                   ELSE all]_vars

\* ---------------------------------------------------------------- C31
\* a frame is read in this step
FrameRead == rec_pc = "loop" /\ rec_frames' = rec_frames + 1

C32_NoUtteranceWithoutSpeech == rec_handed > 0 => rec_loud

\* ---------------------------------------------------------------- C38
\* C38: when _record_and_transcribe_command has returned, the input stream
\* it opened is closed, also when reading a frame raised
C38_StreamReleased == rec_pc = "done" => ~rec_open

\* ---------------------------------------------------------------- C33
\* the sanitized text has 5 characters or fewer
TooShort(r) == r.text \in {"empty", "short"}

\* C33: a turn whose final text has at most 5 characters does not call
\* speak; it fires on_speaking_start, then on_speaking_end, each once, and
\* then on_idle when it runs without history
C33_ShortResponseCallbacks ==
    /\ [](pc \in {"tts_start", "tts_synth", "tts_end"} /\ ttsRet = "pi_post_speak"
            => ~TooShort(response))
    /\ [](pc \in {"pi_nospeech_start", "pi_nospeech_end"} => TooShort(response))
    /\ [](pc = "pi_nospeech_start" => speakEnds = 0 /\ note # "speaking_start")
    /\ [](pc = "pi_nospeech_end" => speakEnds = 0 /\ note = "speaking_start")
    /\ [](pc = "pi_idle_check" /\ TooShort(response)
            => speakEnds = 1 /\ note = "speaking_end")
    /\ [][pc = "loop_head" /\ pc' \notin {"loop_head", "tools", "pi_except"}
            /\ TooShort(response) => pc' = "pi_nospeech_start"]_vars
    /\ [][pc = "pi_nospeech_start" => pc' = "pi_nospeech_end"]_vars
    /\ [][pc = "pi_nospeech_end" => pc' = "pi_idle_check"]_vars
    /\ [][pc = "pi_idle_check" /\ TooShort(response) /\ ~use_history
            => note' = "idle"]_vars

C33_Witness ==
    /\ pc = "pi_idle_check"
    /\ response.text = "short"
    /\ ~use_history
    /\ speakEnds = 1

\* ---------------------------------------------------------------- C34
\* C34: the continuous loop listens again after an empty transcript and
\* after an exception; it is left only at its head once the core is
\* stopped, or through "terminate", and then continuous_mode is off, the
\* history is empty and on_idle is the last notification
C34_ContinuousUntilTerminate ==
    /\ [](pc \in {"cont_head", "cont_record"} => continuous_mode)
    /\ [][pc = "cont_record" /\ pc' \notin {"pi_begin", "tts_start"}
            => pc' = "cont_head" /\ continuous_mode']_vars
    /\ [][pc = "cont_head" /\ is_running => pc' \in {"cont_head", "cont_record"}]_vars
    /\ [][pc = "cont_head" /\ pc' = "cont_record" => note' = "listening"]_vars
    /\ [][pc = "cont_record" /\ pc' = "tts_start"
            => ~continuous_mode' /\ conversation_history' = << >>
               /\ ttsRet' = "cont_term_idle"]_vars
    /\ [](pc = "cont_term_idle" => ~continuous_mode /\ conversation_history = << >>)
    /\ [][pc = "cont_term_idle"
            => pc' = "wake_wait" /\ note' = "idle" /\ ~continuous_mode'
               /\ conversation_history' = << >>]_vars

C34_Witness ==
    /\ pc = "cont_term_idle"
    /\ turns > 0
    /\ note = "speaking_end"
    /\ ~continuous_mode

\* ---------------------------------------------------------------- C35
\* this step fires on_speaking_start: speak's start callback, the
\* no-speech branch, or the explicit call before a confirmation is spoken
StartFires ==
    \/ pc \in {"tts_start", "pi_nospeech_start"}
    \/ pc = "wake_cmd" /\ pc' = "tts_start"

\* this step fires on_speaking_end
EndFires == speakEnds' = speakEnds + 1

\* C35: on_speaking_start and on_speaking_end alternate: a start is never
\* fired when the last notification was a start, and an end is never fired
\* when the last notification was an end
C35_StartEndAlternate ==
    /\ [][StartFires => note # "speaking_start"]_vars
    /\ [][EndFires => note # "speaking_end"]_vars

\* ---------------------------------------------------------------- C36
\* this step fires on_thinking
ThinkingFires == pc = "pi_begin"

\* C36 as stated: on_thinking fires only directly after on_listening, and
\* on_speaking_start never fires when the last notification was
\* on_listening
C36_Original ==
    /\ [][ThinkingFires => note = "listening"]_vars
    /\ [][StartFires => note # "listening"]_vars

\* the speech of a turn: its response, or the no-speech branch
TurnSpeech ==
    \/ pc = "tts_start" /\ ttsRet = "pi_post_speak"
    \/ pc = "pi_nospeech_start"

\* C36: on_thinking fires only directly after on_listening and is then the
\* last notification; the speech of a turn starts only directly after the
\* on_thinking of that turn; on_speaking_start fires directly after
\* on_listening only for the fixed confirmations ("listen up", "terminate",
\* the reply to a declined question), which no model call precedes
C36_LifecycleOrder ==
    /\ [][ThinkingFires => note = "listening" /\ note' = "thinking"]_vars
    /\ [][StartFires /\ TurnSpeech => note = "thinking"]_vars
    /\ [][StartFires /\ note = "listening"
            => \/ pc = "wake_cmd"
               \/ pc = "tts_start"
                  /\ ttsRet \in {"cont_term_idle", "fu_decline_done"}]_vars

C36_Witness ==
    /\ pc = "tts_synth"
    /\ ttsRet = "fu_decline_done"
    /\ note = "speaking_start"
    /\ gui = "Speaking"

\* ---------------------------------------------------------------- C37
\* C37: the message list of a turn that processes the answer to a question
\* ends with the model turn that asked the question and the user turn that
\* carries the answer
C37_QuestionInFollowUp ==
    [][pc = "pi_begin" /\ recorded = "answer"
         => /\ Len(contents') >= 2
            /\ contents'[Len(contents') - 1] = "model"
            /\ contents'[Len(contents')] = "user"]_vars

\* ---------------------------------------------------------------- C39
\* the worker has found nothing to do while its window is open
WorkerIdle == cw_pc = "sleep" /\ current_message = 0 /\ cw_running

\* C39: once the worker is idle with nothing left in its slot, every message
\* that was passed to send_message has been handled exactly once
C39_EachMessageHandledOnce ==
    WorkerIdle => \A m \in 1..cw_sent : cw_handled[m] = 1

\* ---------------------------------------------------------------- C40
ResultStatuses == {"success", "partial", "error"}

\* C40: a run of execute_autopilot ends only by returning a result whose
\* status is success, partial or error; a run with max_iterations 0 returns
\* partial; and an exception of the model call is the last thing the run
\* does: it returns error and the model is not called again
C40_AlwaysReturnsStatus ==
    /\ [](ap_pc \in {"off", "loop_head", "capture", "call", "parse", "steps",
                     "sleep", "returned"})
    /\ [](ap_pc = "returned" => result.status \in ResultStatuses)
    /\ [](ap_pc = "returned" /\ ap_max = 0 => result.status = "partial")
    /\ [][ap_pc = "call" /\ ap_pc' # "parse"
            => /\ ap_pc' = "returned"
               /\ result'.status = "error"
               /\ result'.cause = "model_call"]_vars
    /\ [][ap_pc = "returned" => modelCalls' = modelCalls]_vars

\* the second model call of a run raised and the run returned error
C40_Witness ==
    /\ ap_pc = "returned"
    /\ result.status = "error"
    /\ result.cause = "model_call"
    /\ modelCalls = 2

====
